---- MODULE Spec2Model ----
(***************************************************************************)
(* Track & Field records pipeline: api/scraper.php (parseHtml) and the    *)
(* client normalizer src/services/api.ts (fetchEventData, transformRecord, *)
(* parseTimeToSeconds, parseDateToDays), and the cache and routing of     *)
(* api/scraper.php (getCachedOrFetch, updateAllEvents).                    *)
(*                                                                         *)
(* Text is a sequence of characters; a character is a one-character        *)
(* string, except PlusMinus which stands for the code point U+00B1.        *)
(***************************************************************************)
EXTENDS Integers, Sequences, FiniteSets, TLC

VARIABLES
    doc,         \* history: the pieces html was assembled from
    html,        \* parseHtml: the markup handed to parseHtml
    pc,          \* position: "start", "loop", "parsed", "fetched"
    lines,       \* parseHtml: $lines
    li,          \* parseHtml: number of $lines already taken by the foreach
    records,     \* parseHtml: $records
    srcLine,     \* history: srcLine[k] is the index in lines of records[k]
    result,      \* parseHtml: the returned array
    client,      \* fetchEventData (api.ts): its outcome
    apiRecord,   \* transformRecord: argument apiRecord
    index,       \* transformRecord: argument index
    normalized,  \* transformRecord: the returned AthleteRecord
    datePair,    \* parseDateToDays: two date strings, <<A, B>>
    dayPair,     \* parseDateToDays: what it returned for them, <<>> before the calls
    cache,       \* scraper.php: the files of $CACHE_DIR, one entry per event code
    now,         \* scraper.php: time(), seconds
    req,         \* scraper.php: the request being served and its position
    response,    \* scraper.php: the body of the last response
    fetches,     \* history: upstream fetches made for the request being served
    served,      \* history: number of requests answered
    app,         \* AppProvider: the values of its useState hooks
    calls,       \* App.handleEventChange: the calls waiting for fetchEventData
    eventsList,  \* fetchEventsList (api.ts): its outcome
    debounce,    \* useHover: debounceRef of every component that uses the hook
    clock,       \* the browser's timer clock, milliseconds
    search       \* AthleteSearch: the values of its useState hooks

vars == <<doc, html, pc, lines, li, records, srcLine, result, client,
          apiRecord, index, normalized, datePair, dayPair,
          cache, now, req, response, fetches, served,
         app, calls, eventsList, debounce, clock, search>>

parseVars == <<doc, html, lines, li, records, srcLine, result, client>>

normVars == <<apiRecord, index, normalized>>

dateVars == <<datePair, dayPair>>

cacheVars == <<cache, now, req, response, fetches, served>>

uiVars == <<app, calls, eventsList, debounce, clock, search>>

----------------------------------------------------------------------------
(* Characters *)

PlusMinus == "+/-"

Digits == <<"0", "1", "2", "3", "4", "5", "6", "7", "8", "9">>

IsDigit(c) == \E i \in 1..Len(Digits) : Digits[i] = c

DigitVal(c) == (CHOOSE i \in 1..Len(Digits) : Digits[i] = c) - 1

UpperCase == <<"A", "B", "C", "D", "E", "F", "G", "H", "I", "J", "K", "L", "M",
               "N", "O", "P", "Q", "R", "S", "T", "U", "V", "W", "X", "Y", "Z">>

LowerCase == <<"a", "b", "c", "d", "e", "f", "g", "h", "i", "j", "k", "l", "m",
               "n", "o", "p", "q", "r", "s", "t", "u", "v", "w", "x", "y", "z">>

UpperSet == {UpperCase[i] : i \in 1..Len(UpperCase)}

FoldMap == [c \in UpperSet |-> LowerCase[CHOOSE i \in 1..Len(UpperCase) : UpperCase[i] = c]]

\* ASCII case folding of one character, as stripos applies it
ToLower(c) == IF c \in UpperSet THEN FoldMap[c] ELSE c

\* the characters PHP trim() strips (NUL and vertical tab are not in the alphabet)
IsTrimChar(c) == c \in {" ", "\t", "\n", "\r"}

\* the characters PCRE \s matches
IsSpace(c) == c \in {" ", "\t", "\n", "\r", "\f"}

----------------------------------------------------------------------------
(* PHP string functions used by parseHtml *)

\* the concatenation ss[lo] \o ... \o ss[hi], by halves
RECURSIVE ConcatRange(_, _, _)
ConcatRange(ss, lo, hi) ==
    IF lo > hi THEN <<>>
    ELSE IF lo = hi THEN ss[lo]
    ELSE ConcatRange(ss, lo, (lo + hi) \div 2) \o ConcatRange(ss, ((lo + hi) \div 2) + 1, hi)

Concat(ss) == ConcatRange(ss, 1, Len(ss))

\* does needle occur in haystack at 1-based position p, ignoring ASCII case
MatchesAtCI(haystack, needle, p) ==
    /\ p + Len(needle) - 1 <= Len(haystack)
    /\ \A k \in 1..Len(needle) : ToLower(haystack[p + k - 1]) = ToLower(needle[k])

\* strpos: the case-sensitive search
strpos(haystack, needle) ==
    LET hits == {p \in 1..Len(haystack) :
                    /\ p + Len(needle) - 1 <= Len(haystack)
                    /\ \A k \in 1..Len(needle) : haystack[p + k - 1] = needle[k]}
    IN  IF hits = {} THEN -1
        ELSE (CHOOSE p \in hits : \A q \in hits : p <= q) - 1

\* stripos: 0-based offset of the first occurrence, -1 for PHP's false
stripos(haystack, needle) ==
    LET hits == {p \in 1..Len(haystack) : MatchesAtCI(haystack, needle, p)}
    IN  IF hits = {} THEN -1
        ELSE (CHOOSE p \in hits : \A q \in hits : p <= q) - 1

\* substr($s, $start): from 0-based offset start to the end
substrFrom(s, start) == SubSeq(s, start + 1, Len(s))

\* substr($s, 0, $length)
substrTo(s, length) == SubSeq(s, 1, length)

RECURSIVE ltrim(_)
ltrim(s) == IF s # <<>> /\ IsTrimChar(Head(s)) THEN ltrim(Tail(s)) ELSE s

RECURSIVE rtrim(_)
rtrim(s) ==
    IF s # <<>> /\ IsTrimChar(s[Len(s)]) THEN rtrim(SubSeq(s, 1, Len(s) - 1)) ELSE s

trim(s) == rtrim(ltrim(s))

\* explode("\n", $content): always at least one piece
RECURSIVE explode(_)
explode(s) ==
    IF \A p \in 1..Len(s) : s[p] # "\n" THEN <<s>>
    ELSE LET p == CHOOSE q \in 1..Len(s) :
                    s[q] = "\n" /\ \A r \in 1..(q - 1) : s[r] # "\n"
         IN  <<SubSeq(s, 1, p - 1)>> \o explode(SubSeq(s, p + 1, Len(s)))

\* The entities the model's markup uses; html_entity_decode leaves an
\* ampersand that starts none of them as it is.
Entities ==
    << [name |-> <<"&", "a", "m", "p", ";">>,       char |-> "&"],
       [name |-> <<"&", "l", "t", ";">>,            char |-> "<"],
       [name |-> <<"&", "g", "t", ";">>,            char |-> ">"],
       [name |-> <<"&", "#", "4", "3", ";">>,       char |-> "+"],
       [name |-> <<"&", "#", "1", "0", ";">>,       char |-> "\n"] >>

\* the entities whose name stands at position p of s
EntityAt(s, p) ==
    {i \in 1..Len(Entities) :
        /\ p + Len(Entities[i].name) - 1 <= Len(s)
        /\ SubSeq(s, p, p + Len(Entities[i].name) - 1) = Entities[i].name}

\* html_entity_decode: an entity name holds one "&", its first character,
\* so no two names overlap; a name's first position yields the character
\* and its other positions nothing
html_entity_decode(s) ==
    LET amps    == {p \in 1..Len(s) : s[p] = "&" /\ EntityAt(s, p) # {}}
        entity(p) == Entities[CHOOSE i \in EntityAt(s, p) : TRUE]
        inside(p) == \E q \in amps : q < p /\ p <= q + Len(entity(q).name) - 1
    IN  Concat([p \in 1..Len(s) |->
                   IF p \in amps THEN <<entity(p).char>>
                   ELSE IF inside(p) THEN <<>>
                   ELSE <<s[p]>>])

\* length of the whitespace run that starts at the head of s
RECURSIVE SpaceRun(_)
SpaceRun(s) == IF s # <<>> /\ IsSpace(Head(s)) THEN 1 + SpaceRun(Tail(s)) ELSE 0

\* preg_split('/\s{2,}/', $line): cur is the piece being collected
RECURSIVE preg_split_from(_, _)
preg_split_from(s, cur) ==
    IF s = <<>> THEN <<cur>>
    ELSE IF SpaceRun(s) >= 2
         THEN <<cur>> \o preg_split_from(SubSeq(s, SpaceRun(s) + 1, Len(s)), <<>>)
         ELSE preg_split_from(Tail(s), Append(cur, Head(s)))

preg_split(s) == preg_split_from(s, <<>>)

\* array_values(array_filter($parts, fn($p) => trim($p) !== ''))
RECURSIVE array_filter_nonblank(_)
array_filter_nonblank(ps) ==
    IF ps = <<>> THEN <<>>
    ELSE IF trim(Head(ps)) # <<>>
         THEN <<Head(ps)>> \o array_filter_nonblank(Tail(ps))
         ELSE array_filter_nonblank(Tail(ps))

----------------------------------------------------------------------------
(* Decimal numbers: [n |-> n, e |-> e] is n / 10^e, kept without trailing *)
(* zeros of the fraction so that equal values are equal records; NaN is    *)
(* JavaScript's NaN.                                                       *)

NaN == [nan |-> TRUE, n |-> 0, e |-> 0]

Dec(n, e) == [nan |-> FALSE, n |-> n, e |-> e]

RECURSIVE Pow10(_)
Pow10(e) == IF e = 0 THEN 1 ELSE 10 * Pow10(e - 1)

RECURSIVE Norm(_)
Norm(x) ==
    IF x.e > 0 /\ x.n % 10 = 0 THEN Norm(Dec(x.n \div 10, x.e - 1)) ELSE x

Num(n) == Dec(n, 0)

IsNaN(x) == x.nan

\* x + y on decimals; NaN is absorbing
Plus(x, y) ==
    IF IsNaN(x) \/ IsNaN(y) THEN NaN
    ELSE LET e == IF x.e >= y.e THEN x.e ELSE y.e
         IN  Norm(Dec(x.n * Pow10(e - x.e) + y.n * Pow10(e - y.e), e))

\* x * k for an integer k
Times(x, k) == IF IsNaN(x) THEN NaN ELSE Norm(Dec(x.n * k, x.e))

Minus(x, y) == Plus(x, Times(y, -1))

\* x <= k for an integer k
LeqInt(x, k) == x.n <= k * Pow10(x.e)

Abs(x) == IF x.n < 0 THEN Dec(0 - x.n, x.e) ELSE x

RECURSIVE DigitPrefix(_)
DigitPrefix(s) ==
    IF s # <<>> /\ IsDigit(Head(s)) THEN <<Head(s)>> \o DigitPrefix(Tail(s)) ELSE <<>>

RECURSIVE DigitsValue(_)
DigitsValue(ds) ==
    IF ds = <<>> THEN 0
    ELSE 10 * DigitsValue(SubSeq(ds, 1, Len(ds) - 1)) + DigitVal(ds[Len(ds)])

AllDigits(s) == \A k \in 1..Len(s) : IsDigit(s[k])

\* The longest prefix of s that is a decimal literal [+-]digits[.digits]
\* (strtod and StrDecimalLiteral without exponent): found = FALSE when s
\* starts with no such literal.
DecimalPrefix(s) ==
    LET signed == s # <<>> /\ Head(s) \in {"+", "-"}
        body   == IF signed THEN Tail(s) ELSE s
        ip     == DigitPrefix(body)
        rest   == SubSeq(body, Len(ip) + 1, Len(body))
        fp     == IF rest # <<>> /\ Head(rest) = "." THEN DigitPrefix(Tail(rest)) ELSE <<>>
        mag    == DigitsValue(ip) * Pow10(Len(fp)) + DigitsValue(fp)
    IN  [found |-> ip # <<>> \/ fp # <<>>,
         val   |-> Norm(Dec(IF signed /\ Head(s) = "-" THEN 0 - mag ELSE mag, Len(fp)))]

\* PHP floatval: 0 when the string starts with no number
floatval(s) == IF DecimalPrefix(s).found THEN DecimalPrefix(s).val ELSE Num(0)

----------------------------------------------------------------------------
(* parseHtml, the body of its foreach (scraper.php 164-215) *)

\* PHP empty() of a string: "" and "0"
empty(s) == s = <<>> \/ s = <<"0">>

NoiseKeywords ==
    << <<"i", "n", "d", "o", "o", "r">>,
       <<"o", "v", "e", "r", "s", "i", "z", "e", "d">>,
       <<"i", "n", "t", "e", "r", "m", "e", "d", "i", "a", "t", "e">> >>

\* preg_match('/^[+#*=-]/', $line)
StartsWithNoiseChar(line) == line # <<>> /\ Head(line) \in {"+", "#", "*", "=", "-"}

\* mutant: the keyword filters compare case-sensitively
IsSkippedLine_caseSensitive(line) ==
    \/ empty(line)
    \/ StartsWithNoiseChar(line)
    \/ \E k \in 1..Len(NoiseKeywords) : strpos(line, NoiseKeywords[k]) # -1

\* the four "continue" filters on the trimmed line
IsSkippedLine(line) ==
    \/ empty(line)
    \/ StartsWithNoiseChar(line)
    \/ \E k \in 1..Len(NoiseKeywords) : stripos(line, NoiseKeywords[k]) # -1

\* $parts after preg_split and array_filter
Tokenize(line) == array_filter_nonblank(preg_split(line))

\* preg_match('/^\d+$/', trim($parts[0]))
IsRankToken(tok) == trim(tok) # <<>> /\ AllDigits(trim(tok))

\* preg_match('/^[+\-\x{00B1}]?\d*\.?\d+$/u', $potentialWind)
MatchesWindPattern(w) ==
    LET body     == IF w # <<>> /\ Head(w) \in {"+", "-", PlusMinus} THEN Tail(w) ELSE w
        afterInt == SubSeq(body, Len(DigitPrefix(body)) + 1, Len(body))
    IN  IF afterInt = <<>> THEN body # <<>>
        ELSE /\ Head(afterInt) = "."
             /\ Tail(afterInt) # <<>>
             /\ AllDigits(Tail(afterInt))

\* preg_replace('/[^0-9.\-]/', '', $potentialWind)
RECURSIVE StripNonNumeric(_)
StripNonNumeric(w) ==
    IF w = <<>> THEN <<>>
    ELSE IF IsDigit(Head(w)) \/ Head(w) \in {".", "-"}
         THEN <<Head(w)>> \o StripNonNumeric(Tail(w))
         ELSE StripNonNumeric(Tail(w))

\* mutant: the magnitude test is abs($numericWind) < 10
HasWind_below10(parts) ==
    /\ Len(parts) >= 9
    /\ MatchesWindPattern(trim(parts[3]))
    /\ LET x == Abs(floatval(StripNonNumeric(trim(parts[3]))))
       IN  x.n < 10 * Pow10(x.e)

\* $hasWind for the token list of an accepted line
HasWind(parts) ==
    /\ Len(parts) >= 9
    /\ MatchesWindPattern(trim(parts[3]))
    /\ LeqInt(Abs(floatval(StripNonNumeric(trim(parts[3])))), 10)

\* isset($parts[k]) ? trim($parts[k]) : '' for the 0-based index k
Field(parts, k) == IF k + 1 <= Len(parts) THEN trim(parts[k + 1]) ELSE <<>>

\* mutant: the offset follows the column count, not the wind decision
MakeRecord_offsetByCount(parts) ==
    LET offset == IF Len(parts) >= 9 THEN 1 ELSE 0
    IN  [rank     |-> Field(parts, 0),
         time     |-> Field(parts, 1),
         wind     |-> IF HasWind(parts) THEN trim(parts[3]) ELSE <<>>,
         athlete  |-> Field(parts, 2 + offset),
         country  |-> Field(parts, 3 + offset),
         dob      |-> Field(parts, 4 + offset),
         position |-> Field(parts, 5 + offset),
         location |-> Field(parts, 6 + offset),
         date     |-> Field(parts, 7 + offset)]

\* the array appended to $records
MakeRecord(parts) ==
    LET offset == IF HasWind(parts) THEN 1 ELSE 0
    IN  [rank     |-> Field(parts, 0),
         time     |-> Field(parts, 1),
         wind     |-> IF HasWind(parts) THEN trim(parts[3]) ELSE <<>>,
         athlete  |-> Field(parts, 2 + offset),
         country  |-> Field(parts, 3 + offset),
         dob      |-> Field(parts, 4 + offset),
         position |-> Field(parts, 5 + offset),
         location |-> Field(parts, 6 + offset),
         date     |-> Field(parts, 7 + offset)]

\* mutant: the rank test is left out
AcceptsParts_noRankTest(parts) == Len(parts) >= 8

\* does the tokenized line yield a record
AcceptsParts(parts) == Len(parts) >= 8 /\ IsRankToken(parts[1])

\* one iteration of the foreach: the records the line adds (none or one)
ParseLine(rawLine) ==
    LET line == trim(rawLine)
    IN  IF IsSkippedLine(line) THEN <<>>
        ELSE IF AcceptsParts(Tokenize(line)) THEN <<MakeRecord(Tokenize(line))>>
        ELSE <<>>

----------------------------------------------------------------------------
(* JavaScript built-ins used by api.ts.  The model's alphabet has no "e"   *)
(* in numeric position and no "Infinity", so parseFloat is the decimal     *)
(* prefix.                                                                 *)

\* String.prototype.split(sep) for a one-character separator
RECURSIVE split(_, _)
split(s, sep) ==
    IF \A p \in 1..Len(s) : s[p] # sep THEN <<s>>
    ELSE LET p == CHOOSE q \in 1..Len(s) :
                    s[q] = sep /\ \A r \in 1..(q - 1) : s[r] # sep
         IN  <<SubSeq(s, 1, p - 1)>> \o split(SubSeq(s, p + 1, Len(s)), sep)

\* leading StrWhiteSpaceChar is skipped by parseInt and parseFloat
RECURSIVE SkipWhite(_)
SkipWhite(s) == IF s # <<>> /\ IsSpace(Head(s)) THEN SkipWhite(Tail(s)) ELSE s

\* parseInt(s, 10)
parseInt(s) ==
    LET t      == SkipWhite(s)
        signed == t # <<>> /\ Head(t) \in {"+", "-"}
        ds     == DigitPrefix(IF signed THEN Tail(t) ELSE t)
    IN  IF ds = <<>> THEN NaN
        ELSE Num(IF signed /\ Head(t) = "-" THEN 0 - DigitsValue(ds) ELSE DigitsValue(ds))

\* parseFloat(s)
parseFloat(s) ==
    IF DecimalPrefix(SkipWhite(s)).found THEN DecimalPrefix(SkipWhite(s)).val ELSE NaN

\* x || y on numbers: y when x is NaN or 0
OrElse(x, y) == IF IsNaN(x) \/ x.n = 0 THEN y ELSE x

\* Math.floor(x / k) for an integer-valued x and k > 0
FloorDiv(x, k) == IF IsNaN(x) THEN NaN ELSE Num(x.n \div k)

RECURSIVE NatToStr(_)
NatToStr(n) ==
    IF n < 10 THEN <<Digits[n + 1]>> ELSE NatToStr(n \div 10) \o <<Digits[(n % 10) + 1]>>

\* `${x}` of an integer-valued number
NumToStr(x) ==
    IF IsNaN(x) THEN <<"N", "a", "N">>
    ELSE IF x.n < 0 THEN <<"-">> \o NatToStr(0 - x.n) ELSE NatToStr(x.n)

----------------------------------------------------------------------------
(* api.ts *)

\* mutant: the hours are weighted like minutes
parseTimeToSeconds_hoursTimes60(timeStr) ==
    LET parts == split(timeStr, ":")
    IN  IF Len(parts) = 3
        THEN Plus(Plus(Times(parseInt(parts[1]), 60), Times(parseInt(parts[2]), 60)),
                  parseFloat(parts[3]))
        ELSE IF Len(parts) = 2
        THEN Plus(Times(parseInt(parts[1]), 60), parseFloat(parts[2]))
        ELSE OrElse(parseFloat(timeStr), Num(0))

\* parseTimeToSeconds(timeStr)
parseTimeToSeconds(timeStr) ==
    LET parts == split(timeStr, ":")
    IN  IF Len(parts) = 3
        THEN Plus(Plus(Times(parseInt(parts[1]), 3600), Times(parseInt(parts[2]), 60)),
                  parseFloat(parts[3]))
        ELSE IF Len(parts) = 2
        THEN Plus(Times(parseInt(parts[1]), 60), parseFloat(parts[2]))
        ELSE OrElse(parseFloat(timeStr), Num(0))

\* mutant: a year counts 365 days
parseDateToDays_year365(dateStr) ==
    LET parts == split(dateStr, ".")
    IN  IF dateStr = <<>> THEN Num(0)
        ELSE IF Len(parts) # 3 THEN Num(0)
        ELSE Plus(Plus(Times(parseInt(parts[3]), 365), Times(parseInt(parts[2]), 30)),
                  parseInt(parts[1]))

\* mutant: a month counts 28 days
parseDateToDays_month28(dateStr) ==
    LET parts == split(dateStr, ".")
    IN  IF dateStr = <<>> THEN Num(0)
        ELSE IF Len(parts) # 3 THEN Num(0)
        ELSE Plus(Plus(Times(parseInt(parts[3]), 12 * 30), Times(parseInt(parts[2]), 28)),
                  parseInt(parts[1]))

\* parseDateToDays(dateStr)
parseDateToDays(dateStr) ==
    LET parts == split(dateStr, ".")
    IN  IF dateStr = <<>> THEN Num(0)
        ELSE IF Len(parts) # 3 THEN Num(0)
        ELSE Plus(Plus(Times(parseInt(parts[3]), 12 * 30), Times(parseInt(parts[2]), 30)),
                  parseInt(parts[1]))

\* mutant: the years are cut towards zero, not floored
calculateAge_truncated(birthDateStr, eventDateStr) ==
    LET ageValue == Minus(parseDateToDays(eventDateStr), parseDateToDays(birthDateStr))
    IN  [ageValue |-> ageValue,
         ageYears |-> IF IsNaN(ageValue) THEN NaN
                      ELSE IF ageValue.n < 0 THEN Num(0 - ((0 - ageValue.n) \div (12 * 30)))
                      ELSE Num(ageValue.n \div (12 * 30))]

\* calculateAge(birthDateStr, eventDateStr)
calculateAge(birthDateStr, eventDateStr) ==
    LET ageValue == Minus(parseDateToDays(eventDateStr), parseDateToDays(birthDateStr))
    IN  [ageValue |-> ageValue, ageYears |-> FloorDiv(ageValue, 12 * 30)]

\* fullDob of transformRecord
FullDob(dob) ==
    LET dobParts == split(dob, ".")
        year     == parseInt(dobParts[3])
        fullYear == IF ~IsNaN(year) /\ year.n > 30 THEN Plus(Num(1900), year)
                    ELSE Plus(Num(2000), year)
    IN  IF Len(dobParts) = 3 /\ Len(dobParts[3]) = 2
        THEN dobParts[1] \o <<".">> \o dobParts[2] \o <<".">> \o NumToStr(fullYear)
        ELSE dob

\* transformRecord(apiRecord, index)
transformRecord(rec, idx) ==
    LET age == calculateAge(FullDob(rec.dob), rec.date)
    IN  [rank        |-> OrElse(parseInt(rec.rank), Num(idx + 1)),
         time        |-> rec.time,
         timeSeconds |-> parseTimeToSeconds(rec.time),
         wind        |-> rec.wind,
         name        |-> rec.athlete,
         country     |-> rec.country,
         birthDate   |-> FullDob(rec.dob),
         position    |-> rec.position,
         city        |-> rec.location,
         date        |-> rec.date,
         dateValue   |-> parseDateToDays(rec.date),
         ageValue    |-> age.ageValue,
         ageYears    |-> age.ageYears]

\* mutant: the map walks the records from the last to the first
mapTransform_reversed(recs) ==
    [k \in 1..Len(recs) |-> transformRecord(recs[Len(recs) + 1 - k], Len(recs) - k)]

\* data.records.map((record, index) => transformRecord(record, index))
mapTransform(recs) == [k \in 1..Len(recs) |-> transformRecord(recs[k], k - 1)]

----------------------------------------------------------------------------
(* Inputs: ranking lines as the upstream pages lay them out *)

MaxTokens == 10

MaxBodyLines == 3

Join(tokens, sep) ==
    LET RECURSIVE go(_)
        go(ts) == IF Len(ts) = 1 THEN ts[1] ELSE ts[1] \o sep \o go(Tail(ts))
    IN  IF tokens = <<>> THEN <<>> ELSE go(tokens)

TwoSpaces == <<" ", " ">>

TimeToken == <<"9", ".", "5", "8">>

UsainBolt == <<"U", "s", "a", "i", "n", " ", "B", "o", "l", "t">>

Barshim == <<"M", "u", "t", "a", "z", " ", "E", "s", "s", "a", " ",
             "B", "a", "r", "s", "h", "i", "m">>

\* the columns that follow the optional wind column
Columns ==
    << UsainBolt,
       <<"J", "A", "M">>,
       <<"2", "1", ".", "0", "8", ".", "8", "6">>,
       <<"1">>,
       <<"B", "e", "r", "l", "i", "n">>,
       <<"1", "6", ".", "0", "8", ".", "2", "0", "0", "9">>,
       <<"A">>,
       <<"B">> >>

ColumnAt(k) == IF k <= Len(Columns) THEN Columns[k] ELSE <<"Z">>

RankTokens ==
    { <<"1">>, <<"1", "2">>, <<"0">>, <<"1", "a">>, <<"x">> }

ThirdTokens ==
    { <<"+", "0", ".", "9">>, <<"-", "1", ".", "2">>, <<PlusMinus, "0", ".", "0">>,
      <<"0", ".", "0">>, <<"1", "0", ".", "0">>, <<"1", "0">>, <<"1", "0", ".", "5">>,
      <<"1", "1">>, <<".", "5">>, <<"1", ".">>, <<"+">>,
      <<"P", "o", "w", "e", "l", "l">> }

\* a line of n columns: rank, time, third, then the first n - 3 of Columns
Line(n, rank, third, sep) ==
    Join(<<rank, TimeToken, third>> \o [k \in 1..(n - 3) |-> ColumnAt(k)], sep)

\* the two example lines of the specification
SprintLine == Line(9, <<"1">>, <<"+", "0", ".", "9">>, TwoSpaces)

HighJumpLine ==
    Join(<< <<"1">>, <<"2", ".", "4", "5">>, Barshim, <<"Q", "A", "T">>,
            <<"2", "4", ".", "0", "6", ".", "9", "1">>, <<"1">>,
            <<"D", "o", "h", "a">>,
            <<"0", "5", ".", "0", "9", ".", "2", "0", "1", "4">> >>, TwoSpaces)

\* a valid line whose location column holds the given text
LineAt(location) ==
    Join(<< <<"1">>, TimeToken, UsainBolt, <<"J", "A", "M">>,
            <<"2", "1", ".", "0", "8", ".", "8", "6">>, <<"1">>, location,
            <<"1", "6", ".", "0", "8", ".", "2", "0", "0", "9">> >>, TwoSpaces)

\* every column count with every third column, and with every rank column
ShapeLines ==
    {Line(n, <<"1">>, t, TwoSpaces) : n \in 7..MaxTokens, t \in ThirdTokens}
    \cup {Line(n, r, t, TwoSpaces) : n \in 7..MaxTokens, r \in RankTokens,
                                     t \in { <<"+", "0", ".", "9">>, <<"1", "1">> }}

SeparatorLines ==
    {Line(9, <<"1">>, <<"+", "0", ".", "9">>, sep) :
        sep \in { <<" ">>, <<" ", " ", " ">>, <<" ", "\t">>, <<"\t", "\t">> }}

NoiseLines ==
    {<<c>> \o SprintLine : c \in {"+", "#", "*", "=", "-", "&"}}
    \cup {LineAt(w) : w \in { <<"i", "n", "d", "o", "o", "r">>,
                              <<"I", "N", "D", "O", "O", "R">>,
                              <<"O", "v", "e", "r", "s", "i", "z", "e", "d">>,
                              <<"R", "i", "o", " ", "(", "i", "n", "t", "e", "r", "m",
                                "e", "d", "i", "a", "t", "e", ")">>,
                              <<"i", "n", "&", "a", "m", "p", ";", "d", "o", "o", "r">>,
                              <<"R", "&", "a", "m", "p", ";", "D">> }}
    \cup { <<>>, <<"0">>, <<" ", " ">>,
           <<" ", "\t">> \o SprintLine \o <<" ", "\r">>,
           <<"&", "#", "4", "3", ";">> \o SprintLine,
           HighJumpLine \o <<"&", "#", "1", "0", ";">> \o SprintLine,
           <<"<", "P", "R", "E", ">">> \o TwoSpaces \o SprintLine }

\* a valid line whose time column holds the given text
LineTimed(time) ==
    Join(<< <<"1">>, time, <<"+", "0", ".", "9">> >> \o [k \in 1..6 |-> ColumnAt(k)], TwoSpaces)

TimedLines ==
    {LineTimed(t) : t \in { <<"2", ":", "0", "4", ":", "1", "5", ".", "6">>,
                            <<"-", "5">>,
                            <<"-", "1", ":", "3", "0">>,
                            <<"a", "b", ":", "c", "d">>,
                            <<"D", "N", "F">> }}

\* every line the first body line is drawn from
FirstLines ==
    ShapeLines \cup SeparatorLines \cup NoiseLines \cup TimedLines \cup {SprintLine, HighJumpLine}

\* the lines the further body lines are drawn from
MoreLines == { HighJumpLine, <<"#">> \o SprintLine, Line(7, <<"1">>, <<"1", "1">>, TwoSpaces) }

----------------------------------------------------------------------------
(* Inputs: pages.  A page is preface, opening marker, body lines, closing  *)
(* marker, tail; the preface holds no opening marker and the body no       *)
(* closing marker, so the pieces are the ones parseHtml has to find.       *)

PreTag == <<"<", "P", "R", "E", ">">>

BodyEndTag == <<"<", "/", "B", "O", "D", "Y", ">">>

OpeningMarkers ==
    { PreTag, <<"<", "p", "r", "e", ">">>, <<"<", "P", "r", "e", ">">> }

\* what a page without the marker has in its place
NotMarkers ==
    { <<>>, <<"<", "P", "R", "E", " ", ">">>,
      <<"&", "l", "t", ";", "P", "R", "E", "&", "g", "t", ";">> }

ClosingMarkers == { BodyEndTag, <<"<", "/", "b", "o", "d", "y", ">">> }

Prefaces ==
    { <<>>,
      <<"<", "h", "t", "m", "l", ">", "\n">>
          \o LineAt(<<"B", "e", "f", "o", "r", "e">>) \o <<"\n">> }

Tails ==
    { <<>>,
      <<"\n">> \o LineAt(<<"A", "f", "t", "e", "r">>) \o <<"\n">>
          \o BodyEndTag \o <<"\n">> \o LineAt(<<"A", "f", "t", "e", "r">>) }

\* bodies of 1..MaxBodyLines lines
Bodies(firsts) ==
    UNION { {<<f>> \o rest : f \in firsts, rest \in [1..(n - 1) -> MoreLines]} :
            n \in 1..MaxBodyLines }

BodyText(body) == Concat([k \in 1..Len(body) |-> <<"\n">> \o body[k]]) \o <<"\n">>

Assemble(d) == d.preface \o d.marker \o BodyText(d.body) \o d.closing \o d.tail

\* pages that vary the markers around a few bodies
StructurePages ==
    [preface : Prefaces,
     marker  : OpeningMarkers \cup NotMarkers,
     body    : Bodies({SprintLine, <<"#">> \o SprintLine}),
     closing : {BodyEndTag},
     tail    : {<<>>}]
    \cup
    [preface : Prefaces,
     marker  : OpeningMarkers \cup NotMarkers,
     body    : Bodies({SprintLine, <<"#">> \o SprintLine}),
     closing : ClosingMarkers \ {BodyEndTag},
     tail    : Tails \ {<<>>}]

\* pages that vary the one body line, closed by the end of input
LinePages ==
    [preface : {<<>>},
     marker  : {PreTag},
     body    : {<<f>> : f \in FirstLines},
     closing : {<<>>},
     tail    : {<<>>}]

Pages == StructurePages \cup LinePages

----------------------------------------------------------------------------
(* State machine: scraper.php parseHtml, then api.ts fetchEventData *)

NoRecord ==
    [rank |-> <<>>, time |-> <<>>, wind |-> <<>>, athlete |-> <<>>, country |-> <<>>,
     dob |-> <<>>, position |-> <<>>, location |-> <<>>, date |-> <<>>]

NoResult == [success |-> FALSE, error |-> "", count |-> 0, records |-> <<>>]

NoClient == [threw |-> FALSE, records |-> <<>>]

NormIdle ==
    /\ apiRecord = NoRecord
    /\ index = 0
    /\ normalized = transformRecord(NoRecord, 0)

ParseIdle ==
    /\ doc = [preface |-> <<>>, marker |-> <<>>, body |-> <<>>, closing |-> <<>>,
              tail |-> <<>>]
    /\ html = <<>>
    /\ lines = <<>>
    /\ li = 0
    /\ records = <<>>
    /\ srcLine = <<>>
    /\ result = NoResult
    /\ client = NoClient

DatesIdle ==
    /\ datePair = <<>>
    /\ dayPair = <<>>

CacheIdle ==
    /\ cache = <<>>
    /\ now = 0
    /\ req = <<>>
    /\ response = <<>>
    /\ fetches = <<>>
    /\ served = 0

UiIdle ==
    /\ app = <<>>
    /\ calls = <<>>
    /\ eventsList = <<>>
    /\ debounce = <<>>
    /\ clock = 0
    /\ search = <<>>

Init ==
    /\ doc \in Pages
    /\ html = Assemble(doc)
    /\ pc = "start"
    /\ lines = <<>>
    /\ li = 0
    /\ records = <<>>
    /\ srcLine = <<>>
    /\ result = NoResult
    /\ client = NoClient
    /\ NormIdle
    /\ DatesIdle
    /\ CacheIdle
    /\ UiIdle

\* parseHtml 139-147: no <PRE>, the failed result (error "" is an absent key)
ParseNoPre ==
    /\ pc = "start"
    /\ stripos(html, PreTag) = -1
    /\ result' = [success |-> FALSE, error |-> "No PRE tag found in HTML",
                  count |-> 0, records |-> <<>>]
    /\ pc' = "parsed"
    /\ UNCHANGED <<doc, html, lines, li, records, srcLine, client,
                   apiRecord, index, normalized>>
    /\ UNCHANGED <<dateVars, cacheVars, uiVars>>

\* $content of parseHtml 150-159
Content(markup) ==
    LET afterPre == substrFrom(markup, stripos(markup, PreTag) + 5)
        endPos   == stripos(afterPre, BodyEndTag)
    IN  html_entity_decode(IF endPos # -1 THEN substrTo(afterPre, endPos) ELSE afterPre)

\* parseHtml 149-162: slice, decode, split into lines
ParseExtract ==
    /\ pc = "start"
    /\ stripos(html, PreTag) # -1
    /\ lines' = explode(Content(html))
    /\ li' = 0
    /\ records' = <<>>
    /\ srcLine' = <<>>
    /\ pc' = "loop"
    /\ UNCHANGED <<doc, html, result, client, apiRecord, index, normalized>>
    /\ UNCHANGED <<dateVars, cacheVars, uiVars>>

\* parseHtml 164-215: one iteration of the foreach
ParseForeach ==
    /\ pc = "loop"
    /\ li < Len(lines)
    /\ LET new == ParseLine(lines[li + 1])
       IN  /\ records' = records \o new
           /\ srcLine' = srcLine \o [k \in 1..Len(new) |-> li + 1]
    /\ li' = li + 1
    /\ UNCHANGED <<doc, html, pc, lines, result, client, apiRecord, index, normalized>>
    /\ UNCHANGED <<dateVars, cacheVars, uiVars>>

\* parseHtml 217-222 (fetched_at, the wall clock, is left out)
ParseReturn ==
    /\ pc = "loop"
    /\ li = Len(lines)
    /\ result' = [success |-> TRUE, error |-> "", count |-> Len(records),
                  records |-> records]
    /\ pc' = "parsed"
    /\ UNCHANGED <<doc, html, lines, li, records, srcLine, client,
                   apiRecord, index, normalized>>
    /\ UNCHANGED <<dateVars, cacheVars, uiVars>>

\* api.ts fetchEventData 16-22 on the response body parseHtml produced
ClientFetch ==
    /\ pc = "parsed"
    /\ client' = IF result.error # "" \/ ~result.success
                 THEN [threw |-> TRUE, records |-> <<>>]
                 ELSE [threw |-> FALSE, records |-> mapTransform(result.records)]
    /\ pc' = "fetched"
    /\ UNCHANGED <<doc, html, lines, li, records, srcLine, result,
                   apiRecord, index, normalized>>
    /\ UNCHANGED <<dateVars, cacheVars, uiVars>>

Next ==
    \/ ParseNoPre
    \/ ParseExtract
    \/ ParseForeach
    \/ ParseReturn
    \/ ClientFetch

Spec == Init /\ [][Next]_vars

----------------------------------------------------------------------------
(* State machine: api.ts transformRecord on one raw record *)

MaxTimeLen == 5

MaxDateLen == 5

StringsUpTo(alphabet, n) == UNION {[1..k -> alphabet] : k \in 0..n}

TimeAlphabet == {"1", ":", ".", "x"}

DateAlphabet == {"1", ".", "x"}

ExampleTimes ==
    { <<"2", ":", "0", "4", ":", "1", "5", ".", "6">>,
      <<"9", ".", "5", "8">>,
      <<"4", "4", ".", "7", "2">>,
      <<"a", "b", ":", "c", "d">>,
      <<"1", ":", "x", "x", ":", "3", "0">>,
      <<"1", ":", "2", ":", "3", ":", "4">>,
      <<"9", ".", "5", "8", "A">>,
      <<"-", "5">>,
      <<"-", "1", ":", "3", "0">>,
      <<"0">>,
      <<" ", "9", ".", "5", "8">> }

Pad2(n) == <<Digits[(n \div 10) + 1], Digits[(n % 10) + 1]>>

\* DD.MM.YYYY
FormatDate(d, m, y) == Pad2(d) \o <<".">> \o Pad2(m) \o <<".">> \o NatToStr(y)

ExampleDates ==
    {FormatDate(d, m, y) : d \in {1, 16, 31}, m \in {1, 8, 12}, y \in {1986, 2009}}
    \cup { <<"n", "o", "t", "-", "a", "-", "d", "a", "t", "e">>,
           <<"x", "x", ".", "y", "y", ".", "z", "z", "z", "z">>,
           <<"1", "6", ".", "0", "8", ".", "0", "9">> }

\* DD.MM.YY
FormatDob(d, m, yy) == Pad2(d) \o <<".">> \o Pad2(m) \o <<".">> \o Pad2(yy)

ExampleDobs ==
    {FormatDob(d, m, yy) : d \in {15, 21}, m \in {3, 8}, yy \in {0, 5, 30, 31, 86, 99}}
    \cup { FormatDate(21, 8, 1986),
           <<"2", "1", ".", "0", "8", ".", "x", "x">>,
           <<"2", "1", ".", "0", "8", ".", "5", "x">>,
           <<"2", "1", ".", "0", "8", ".", "-", "5">>,
           <<"2", "1", ".", "0", "8", ".", "6">>,
           <<"2", "1", ".", "0", "8", ".", "9", "8", "6">>,
           <<"2", "1", ".", "0", "8">>,
           <<"8", "6">>,
           <<>> }

\* event dates the birth dates are paired with
AgeDates ==
    { FormatDate(16, 8, 2009), FormatDate(1, 1, 1999),
      <<"x", "x", ".", "y", "y", ".", "z", "z", "z", "z">>, <<>> }

ExampleRanks ==
    { <<>>, <<"0">>, <<"0", "0">>, <<"7">>, <<"1", "2">>, <<"0", "7">>, <<"x">>,
      <<"3", "a">>, <<"-", "2">>, <<" ", "4">> }

BaseRecord == MakeRecord(Tokenize(SprintLine))

RawRecords ==
    {[BaseRecord EXCEPT !.time = t] : t \in StringsUpTo(TimeAlphabet, MaxTimeLen) \cup ExampleTimes}
    \cup {[BaseRecord EXCEPT !.date = d] :
             d \in StringsUpTo(DateAlphabet, MaxDateLen) \cup ExampleDates}
    \cup {[BaseRecord EXCEPT !.dob = b, !.date = d] : b \in ExampleDobs, d \in AgeDates}
    \cup {[BaseRecord EXCEPT !.rank = r] : r \in ExampleRanks}

InitNorm ==
    /\ apiRecord \in RawRecords
    /\ index \in IF apiRecord = BaseRecord \/ apiRecord.rank # BaseRecord.rank
                 THEN {0, 4} ELSE {0}
    /\ normalized = transformRecord(NoRecord, 0)
    /\ pc = "raw"
    /\ ParseIdle
    /\ DatesIdle
    /\ CacheIdle
    /\ UiIdle

\* one call transformRecord(apiRecord, index)
Transform ==
    /\ pc = "raw"
    /\ normalized' = transformRecord(apiRecord, index)
    /\ pc' = "normalized"
    /\ UNCHANGED <<doc, html, lines, li, records, srcLine, result, client,
                   apiRecord, index>>
    /\ UNCHANGED <<dateVars, cacheVars, uiVars>>

NextNorm == Transform

SpecNorm == InitNorm /\ [][NextNorm]_vars

----------------------------------------------------------------------------
(* State machine: api.ts parseDateToDays on two dates, as calculateAge and *)
(* the sort by dateValue use it                                            *)

CalendarDates == {FormatDate(d, m, y) : d \in {1, 15, 30, 31}, m \in 1..12, y \in {2009}}

InitDates ==
    /\ datePair \in CalendarDates \X CalendarDates
    /\ dayPair = <<>>
    /\ pc = "dates"
    /\ ParseIdle
    /\ NormIdle
    /\ CacheIdle
    /\ UiIdle

\* parseDateToDays(A) and parseDateToDays(B)
ParseDates ==
    /\ pc = "dates"
    /\ dayPair' = <<parseDateToDays(datePair[1]), parseDateToDays(datePair[2])>>
    /\ pc' = "days"
    /\ UNCHANGED <<parseVars, normVars, datePair, cacheVars, uiVars>>

NextDates == ParseDates

SpecDates == InitDates /\ [][NextDates]_vars

----------------------------------------------------------------------------
(* State machine: scraper.php main routing, getCachedOrFetch,              *)
(* updateAllEvents.  A cache file holds json_encode of the result; the     *)
(* model's text is valid UTF-8, where json_decode(json_encode(x), true)    *)
(* gives back the keys and values of x, so a file is held as the array it  *)
(* encodes.  An array is a record whose fields are the keys that are set.  *)

MaxRequests == 2

\* the PHP workers; one, so the requests are served one after the other
Procs == {1}

\* $CACHE_DURATION, seconds
CACHE_DURATION == 7 * 24 * 60 * 60

\* two of the keys of $EVENTS, in its order: m_100, mmara
Catalog == << <<"m", "_", "1", "0", "0">>, <<"m", "m", "a", "r", "a">> >>

CatalogCodes == {Catalog[k] : k \in 1..Len(Catalog)}

\* the instants the clock is looked at: the start, and one second before,
\* at, and one second after a whole $CACHE_DURATION
Instants == {0, 1, CACHE_DURATION - 1, CACHE_DURATION, CACHE_DURATION + 1}

NoEntry == [exists |-> FALSE]

\* a character preg_replace('/[^a-z0-9_]/i', ...) keeps
IsCodeChar(c) ==
    IsDigit(c) \/ c \in UpperSet \/ c \in {LowerCase[i] : i \in 1..Len(LowerCase)} \/ c = "_"

\* mutant: the underscore is removed as well
Sanitize_noUnderscore(text) == SelectSeq(text, LAMBDA c : IsCodeChar(c) /\ c # "_")

\* preg_replace('/[^a-z0-9_]/i', '', $text)
Sanitize(text) == SelectSeq(text, IsCodeChar)

\* values of the event parameter: the modelled keys, keys with characters
\* the routing removes, and texts that are no key after the removal
EventParams ==
    CatalogCodes
    \cup { <<"m", "m", "a", "r", "a", "!">>,
           <<"M", "M", "A", "R", "A">>,
           <<"m", " ", "1", "0", "0">>,
           <<>> }

\* the names getCachedOrFetch could be called with: $eventCode . '.json'
CacheFiles == CatalogCodes \cup {Sanitize(t) : t \in EventParams}

\* isset($EVENTS[$event])
IsCatalogued(event) == \E k \in 1..Len(Catalog) : Catalog[k] = event

OnePage(marker, body) ==
    Assemble([preface |-> <<>>, marker |-> marker, body |-> body, closing |-> <<>>,
              tail |-> <<>>])

\* what the upstream server may hold: a ranking, a page whose data block has
\* no valid line, a page without data block
UpstreamPages ==
    { OnePage(PreTag, <<HighJumpLine, SprintLine>>),
      OnePage(PreTag, << <<"#">> \o SprintLine, Line(7, <<"1">>, <<"1", "1">>, TwoSpaces) >>),
      OnePage(<<"<", "P", "R", "E", " ", ">">>, <<SprintLine>>) }

\* what file_get_contents($url) returns: false, or the page
UpstreamReplies ==
    {[ok |-> FALSE, html |-> <<>>]} \cup {[ok |-> TRUE, html |-> h] : h \in UpstreamPages}

\* the foreach of parseHtml over $lines from the k-th on
RECURSIVE foreachFrom(_, _)
foreachFrom(ls, k) ==
    IF k > Len(ls) THEN <<>> ELSE ParseLine(ls[k]) \o foreachFrom(ls, k + 1)

\* parseHtml($html) as a whole (fetched_at, the wall clock, is left out)
parseHtml(markup) ==
    IF stripos(markup, PreTag) = -1
    THEN [success |-> FALSE, error |-> "No PRE tag found in HTML", count |-> 0,
          records |-> <<>>]
    ELSE LET recs == foreachFrom(explode(Content(markup)), 1)
         IN  [success |-> TRUE, count |-> Len(recs), records |-> recs]

ParsedPages == [h \in UpstreamPages |-> parseHtml(h)]

\* fetchEventData($eventCode) when file_get_contents returns reply
fetchEventData(eventCode, reply) ==
    IF ~reply.ok
    THEN [error |-> <<"Failed to fetch data from https://www.alltime-athletics.com/",
                      eventCode, "ok.htm">>]
    ELSE ParsedPages[reply.html]

\* isset($data['error'])
HasError(data) == "error" \in DOMAIN data

\* $data with $data[key] = value
WithKey(data, key, value) ==
    [k \in DOMAIN data \cup {key} |-> IF k = key THEN value ELSE data[k]]

\* an array without one of its keys
Without(data, key) == [k \in DOMAIN data \ {key} |-> data[k]]

\* round($cacheAge / 3600, 1)
AgeHours(cacheAge) == Norm(Dec((cacheAge * 20 + 3600) \div 7200, 1))

\* the query string: update_all and list set or not; event, a sequence that
\* is empty when the parameter is not set; refresh ("" is not set)
Queries ==
    [update_all : BOOLEAN, list : BOOLEAN, event : {<<>>, <<Catalog[2]>>}, refresh : {""}]
    \cup [update_all : {FALSE}, list : {FALSE}, event : {<<t>> : t \in CatalogCodes},
          refresh : {"", "0", "1"}]
    \cup [update_all : {FALSE}, list : {FALSE}, event : {<<t>> : t \in EventParams},
          refresh : {""}]

\* $event of main routing 315 for every value of the event parameter
SanitizedParams == [t \in EventParams |-> Sanitize(t)]

NoResponse == [status |-> 0, body |-> <<>>]

\* $_GET of a script that has not been started
NoQuery == [update_all |-> FALSE, list |-> FALSE, event |-> <<>>, refresh |-> ""]

Idle == [query |-> NoQuery, kind |-> "none", event |-> <<>>, force |-> FALSE, todo |-> <<>>,
         stage |-> "idle", data |-> <<>>, results |-> <<>>]

InitCache ==
    /\ cache = [c \in CacheFiles |-> NoEntry]
    /\ now = 0
    /\ req = [p \in Procs |-> Idle]
    /\ response = [p \in Procs |-> NoResponse]
    /\ fetches = [p \in Procs |-> 0]
    /\ served = 0
    /\ pc = "serving"
    /\ ParseIdle
    /\ NormIdle
    /\ DatesIdle
    /\ UiIdle

\* listEvents() 280-298 (the display name of an event is left out;
\* cache_date is the file time, empty for null)
listEvents ==
    [success |-> TRUE,
     events  |-> [k \in 1..Len(Catalog) |->
                     [code       |-> Catalog[k],
                      cached     |-> cache[Catalog[k]].exists,
                      cache_date |-> IF cache[Catalog[k]].exists
                                     THEN <<cache[Catalog[k]].mtime>> ELSE <<>>]]]

\* the API info of 330-341 (the endpoint texts are left out)
ApiInfo == [name |-> "Track & Field Records API", version |-> "2.0", events |-> Catalog]

UnknownEvent ==
    [success |-> FALSE, error |-> "Unknown event. Use ?list to see available events."]

\* a request that is answered by the routing itself
Answered(q, kind) == [Idle EXCEPT !.query = q, !.kind = kind, !.stage = "done"]

\* a request that calls getCachedOrFetch($event, $force), then for $todo
Calling(q, kind, event, force, todo) ==
    [query |-> q, kind |-> kind, event |-> event, force |-> force, todo |-> todo,
     stage |-> "check", data |-> <<>>, results |-> <<>>]

\* mutant: the event is not looked up in $EVENTS
Arrive_anyEvent(p, q) ==
    /\ req[p].stage \in {"idle", "done"}
    /\ served < MaxRequests
    /\ IF q.update_all
       THEN /\ req' = [req EXCEPT ![p] = Calling(q, "update_all", Head(Catalog),
                                                 TRUE, Tail(Catalog))]
            /\ response' = [response EXCEPT ![p] = NoResponse]
       ELSE IF q.list
       THEN /\ req' = [req EXCEPT ![p] = Answered(q, "list")]
            /\ response' = [response EXCEPT ![p] = [status |-> 200, body |-> listEvents]]
       ELSE IF q.event = <<>>
       THEN /\ req' = [req EXCEPT ![p] = Answered(q, "info")]
            /\ response' = [response EXCEPT ![p] = [status |-> 200, body |-> ApiInfo]]
       ELSE /\ req' = [req EXCEPT ![p] = Calling(q, "event",
                                                 SanitizedParams[q.event[1]],
                                                 q.refresh = "1", <<>>)]
            /\ response' = [response EXCEPT ![p] = NoResponse]
    /\ fetches' = [fetches EXCEPT ![p] = 0]
    /\ served' = served + 1
    /\ UNCHANGED <<cache, now>>

\* main routing 303-341
Arrive(p, q) ==
    /\ req[p].stage \in {"idle", "done"}
    /\ served < MaxRequests
    /\ IF q.update_all
       THEN /\ req' = [req EXCEPT ![p] = Calling(q, "update_all", Head(Catalog),
                                                 TRUE, Tail(Catalog))]
            /\ response' = [response EXCEPT ![p] = NoResponse]
       ELSE IF q.list
       THEN /\ req' = [req EXCEPT ![p] = Answered(q, "list")]
            /\ response' = [response EXCEPT ![p] = [status |-> 200, body |-> listEvents]]
       ELSE IF q.event = <<>>
       THEN /\ req' = [req EXCEPT ![p] = Answered(q, "info")]
            /\ response' = [response EXCEPT ![p] = [status |-> 200, body |-> ApiInfo]]
       ELSE IF ~IsCatalogued(SanitizedParams[q.event[1]])
       THEN /\ req' = [req EXCEPT ![p] = [Answered(q, "unknown") EXCEPT
                                              !.event = SanitizedParams[q.event[1]]]]
            /\ response' = [response EXCEPT ![p] = [status |-> 400, body |-> UnknownEvent]]
       ELSE /\ req' = [req EXCEPT ![p] = Calling(q, "event",
                                                 SanitizedParams[q.event[1]],
                                                 q.refresh = "1", <<>>)]
            /\ response' = [response EXCEPT ![p] = NoResponse]
    /\ fetches' = [fetches EXCEPT ![p] = 0]
    /\ served' = served + 1
    /\ UNCHANGED <<cache, now>>

\* what getCachedOrFetch returns from a fresh cache file, 236-242
FromCache(entry, cacheAge) ==
    WithKey(WithKey(entry.data, "from_cache", TRUE), "cache_age_hours", AgeHours(cacheAge))

\* the response of the request of p when getCachedOrFetch has returned data
Returned(p, data) == [response EXCEPT ![p] = [status |-> 200, body |-> data]]

\* mutant: an entry exactly $CACHE_DURATION old still counts as fresh
CheckCache_freshAtDuration(p) ==
    /\ req[p].stage = "check"
    /\ LET entry    == cache[req[p].event]
           cacheAge == now - entry.mtime
       IN  IF ~req[p].force /\ entry.exists /\ cacheAge <= CACHE_DURATION
           THEN /\ response' = Returned(p, FromCache(entry, cacheAge))
                /\ req' = [req EXCEPT ![p].stage = "done"]
           ELSE /\ req' = [req EXCEPT ![p].stage = "fetch"]
                /\ UNCHANGED response
    /\ UNCHANGED <<cache, now, fetches, served>>

\* mutant: $forceRefresh is not looked at
CheckCache_forceIgnored(p) ==
    /\ req[p].stage = "check"
    /\ LET entry    == cache[req[p].event]
           cacheAge == now - entry.mtime
       IN  IF entry.exists /\ cacheAge < CACHE_DURATION
           THEN /\ response' = Returned(p, FromCache(entry, cacheAge))
                /\ req' = [req EXCEPT ![p].stage = IF req[p].kind = "event" THEN "done"
                                                   ELSE "store",
                                      ![p].data = IF req[p].kind = "event" THEN <<>>
                                                  ELSE FromCache(entry, cacheAge)]
           ELSE /\ req' = [req EXCEPT ![p].stage = "fetch"]
                /\ UNCHANGED response
    /\ UNCHANGED <<cache, now, fetches, served>>

\* getCachedOrFetch 233-243: the cache file is looked at
CheckCache(p) ==
    /\ req[p].stage = "check"
    /\ LET entry    == cache[req[p].event]
           cacheAge == now - entry.mtime
       IN  IF ~req[p].force /\ entry.exists /\ cacheAge < CACHE_DURATION
           THEN /\ response' = Returned(p, FromCache(entry, cacheAge))
                /\ req' = [req EXCEPT ![p].stage = "done"]
           ELSE /\ req' = [req EXCEPT ![p].stage = "fetch"]
                /\ UNCHANGED response
    /\ UNCHANGED <<cache, now, fetches, served>>

\* getCachedOrFetch 246, fetchEventData 108-130: the upstream request
Fetch(p, reply) ==
    /\ req[p].stage = "fetch"
    /\ req' = [req EXCEPT ![p].stage = "store",
                          ![p].data = fetchEventData(req[p].event, reply)]
    /\ fetches' = [fetches EXCEPT ![p] = @ + 1]
    /\ UNCHANGED <<cache, now, response, served>>

\* the array updateAllEvents returns, 268-275
Summary(results) ==
    [success |-> TRUE,
     events  |-> [k \in 1..Len(results) |-> results[k].code],
     summary |-> [k \in 1..Len(results) |->
                     IF "count" \in DOMAIN results[k].data
                     THEN <<results[k].data.count, " records">> ELSE <<"error">>]]

\* mutant: the result is written to the cache file whether or not it has an
\* error key
Store_errorsWritten(p) ==
    /\ req[p].stage = "store"
    /\ LET data    == IF HasError(req[p].data) THEN req[p].data
                      ELSE WithKey(req[p].data, "from_cache", FALSE)
           results == req[p].results \o <<[code |-> req[p].event, data |-> data]>>
       IN  /\ cache' = [cache EXCEPT ![req[p].event] =
                           [exists |-> TRUE, data |-> data, mtime |-> now]]
           /\ IF req[p].kind = "event"
              THEN /\ response' = Returned(p, data)
                   /\ req' = [req EXCEPT ![p].stage = "done", ![p].data = <<>>]
              ELSE IF req[p].todo = <<>>
              THEN /\ response' = Returned(p, Summary(results))
                   /\ req' = [req EXCEPT ![p].stage = "done", ![p].data = <<>>,
                                         ![p].results = results]
              ELSE /\ req' = [req EXCEPT ![p].stage = "check", ![p].data = <<>>,
                                         ![p].results = results,
                                         ![p].event = Head(req[p].todo),
                                         ![p].todo = Tail(req[p].todo)]
                   /\ UNCHANGED response
    /\ UNCHANGED <<now, fetches, served>>

\* getCachedOrFetch 248-253, then the caller: main routing 326, or the loop
\* of updateAllEvents 262-265 and its return
Store(p) ==
    /\ req[p].stage = "store"
    /\ LET data    == IF HasError(req[p].data) THEN req[p].data
                      ELSE WithKey(req[p].data, "from_cache", FALSE)
           results == req[p].results \o <<[code |-> req[p].event, data |-> data]>>
       IN  /\ cache' = IF HasError(req[p].data) THEN cache
                       ELSE [cache EXCEPT ![req[p].event] =
                                [exists |-> TRUE, data |-> data, mtime |-> now]]
           /\ IF req[p].kind = "event"
              THEN /\ response' = Returned(p, data)
                   /\ req' = [req EXCEPT ![p].stage = "done", ![p].data = <<>>]
              ELSE IF req[p].todo = <<>>
              THEN /\ response' = Returned(p, Summary(results))
                   /\ req' = [req EXCEPT ![p].stage = "done", ![p].data = <<>>,
                                         ![p].results = results]
              ELSE /\ req' = [req EXCEPT ![p].stage = "check", ![p].data = <<>>,
                                         ![p].results = results,
                                         ![p].event = Head(req[p].todo),
                                         ![p].todo = Tail(req[p].todo)]
                   /\ UNCHANGED response
    /\ UNCHANGED <<now, fetches, served>>

\* time() moves on
Tick(t) ==
    /\ t > now
    /\ now' = t
    /\ UNCHANGED <<cache, req, response, fetches, served>>

NextCache ==
    /\ \/ \E p \in Procs, q \in Queries : Arrive(p, q)
       \/ \E p \in Procs : CheckCache(p)
       \/ \E p \in Procs, reply \in UpstreamReplies : Fetch(p, reply)
       \/ \E p \in Procs : Store(p)
       \/ \E t \in Instants : Tick(t)
    /\ UNCHANGED <<pc, parseVars, normVars, dateVars, uiVars>>

SpecCache == InitCache /\ [][NextCache]_vars

----------------------------------------------------------------------------
(* State machine: getCachedOrFetch run by several PHP workers for one      *)
(* event at the same time.  Nothing in scraper.php locks the cache file,   *)
(* so the system calls of different workers interleave: file_put_contents  *)
(* opens the file for writing, which creates or empties it, and then       *)
(* writes its text from offset 0; file_get_contents reads what the file    *)
(* holds at that moment.  The text of a file is a sequence of blocks: one  *)
(* for the keys other than records, then one for every record.             *)

\* the workers
Workers == {1, 2, 3}

\* the event all of them are asked for
RaceEvent == Catalog[2]

\* json_encode($data) as blocks
Encoded(data) ==
    <<[head |-> Without(data, "records")]>>
    \o [k \in 1..Len(data.records) |-> [rec |-> data.records[k]]]

\* the value of a file nothing decodes: null, an array without keys
Null == [k \in {} |-> FALSE]

IsWellFormed(blocks) ==
    /\ blocks # <<>>
    /\ "head" \in DOMAIN blocks[1]
    /\ blocks[1].head.count = Len(blocks) - 1
    /\ \A k \in 2..Len(blocks) : "rec" \in DOMAIN blocks[k]

\* json_decode($text, true)
Decoded(blocks) ==
    IF IsWellFormed(blocks)
    THEN WithKey(blocks[1].head, "records", [k \in 1..(Len(blocks) - 1) |-> blocks[k + 1].rec])
    ELSE Null

\* the text of a file after write() of text at offset 0
Overwritten(old, text) == text \o SubSeq(old, Len(text) + 1, Len(old))

\* results that were stored earlier: those of the upstream pages without error
StoredEarlier ==
    {WithKey(ParsedPages[h], "from_cache", FALSE) :
        h \in {g \in UpstreamPages : ~HasError(ParsedPages[g])}}

RaceIdle(force) ==
    [Idle EXCEPT !.kind = "event", !.event = RaceEvent, !.force = force, !.stage = "check"]

InitRace ==
    /\ cache \in {[c \in {RaceEvent} |-> e] :
                    e \in {NoEntry} \cup {[exists |-> TRUE, blocks |-> Encoded(d), mtime |-> 0] :
                                            d \in StoredEarlier}}
    /\ now = 0
    /\ req \in [Workers -> {RaceIdle(FALSE), RaceIdle(TRUE)}]
    /\ response = [p \in Workers |-> NoResponse]
    /\ fetches = [p \in Workers |-> 0]
    /\ served = 0
    /\ pc = "racing"
    /\ ParseIdle
    /\ NormIdle
    /\ DatesIdle
    /\ UiIdle

\* getCachedOrFetch 234-236: file_exists, filemtime, the age test
RaceCheck(p) ==
    /\ req[p].stage = "check"
    /\ LET entry == cache[req[p].event]
       IN  req' = [req EXCEPT ![p].stage =
                      IF ~req[p].force /\ entry.exists /\ now - entry.mtime < CACHE_DURATION
                      THEN "read" ELSE "fetch"]
    /\ UNCHANGED <<cache, now, response, fetches, served>>

\* getCachedOrFetch 237-240: file_get_contents, json_decode, the two keys
RaceRead(p) ==
    /\ req[p].stage = "read"
    /\ LET entry  == cache[req[p].event]
           cached == Decoded(entry.blocks)
       IN  response' = Returned(p, WithKey(WithKey(cached, "from_cache", TRUE),
                                           "cache_age_hours", AgeHours(now - entry.mtime)))
    /\ req' = [req EXCEPT ![p].stage = "done"]
    /\ UNCHANGED <<cache, now, fetches, served>>

\* getCachedOrFetch 245-248, and 252 for a result with an error
RaceFetch(p, reply) ==
    /\ req[p].stage = "fetch"
    /\ LET data == fetchEventData(req[p].event, reply)
       IN  IF HasError(data)
           THEN /\ req' = [req EXCEPT ![p].stage = "done", ![p].data = data]
                /\ response' = Returned(p, data)
           ELSE /\ req' = [req EXCEPT ![p].stage = "open",
                                     ![p].data = WithKey(data, "from_cache", FALSE)]
                /\ UNCHANGED response
    /\ fetches' = [fetches EXCEPT ![p] = @ + 1]
    /\ UNCHANGED <<cache, now, served>>

\* file_put_contents 249: the file is opened for writing, created or emptied
RaceOpen(p) ==
    /\ req[p].stage = "open"
    /\ cache' = [cache EXCEPT ![req[p].event] =
                    [exists |-> TRUE, blocks |-> <<>>, mtime |-> now]]
    /\ req' = [req EXCEPT ![p].stage = "write"]
    /\ UNCHANGED <<now, response, fetches, served>>

\* file_put_contents 249: the text is written from offset 0; 252
RaceWrite(p) ==
    /\ req[p].stage = "write"
    /\ cache' = [cache EXCEPT ![req[p].event].blocks = Overwritten(@, Encoded(req[p].data)),
                              ![req[p].event].mtime = now]
    /\ response' = Returned(p, req[p].data)
    /\ req' = [req EXCEPT ![p].stage = "done", ![p].results = <<"written">>]
    /\ UNCHANGED <<now, fetches, served>>

NextRace ==
    /\ \/ \E p \in Workers : RaceCheck(p)
       \/ \E p \in Workers : RaceRead(p)
       \/ \E p \in Workers, reply \in UpstreamReplies : RaceFetch(p, reply)
       \/ \E p \in Workers : RaceOpen(p)
       \/ \E p \in Workers : RaceWrite(p)
    /\ UNCHANGED <<pc, parseVars, normVars, dateVars, uiVars>>

SpecRace == InitRace /\ [][NextRace]_vars

----------------------------------------------------------------------------
(* State machine: the React front end.  AppProvider holds the state; the   *)
(* event selector calls App.handleEventChange, which awaits fetchEventData *)
(* of api.ts; the back end answers through the main routing of             *)
(* scraper.php.  A text is a sequence of characters, '' is <<>>.  For      *)
(* error, null is <<>> and a message is the sequence of its pieces.        *)

MaxSelections == 3

\* JavaScript null and undefined, for the record ids
null == "null"

undefined == "undefined"

\* the value attribute of the options of the selector: '', then the codes of
\* EVENTS that the catalog of this model holds
Options == {<<>>} \cup CatalogCodes

\* what fetch() gives for ?event=code: a rejection, or the response of the
\* main routing 313-327 around getCachedOrFetch
EventExchanges(code) ==
    {[failed |-> TRUE, ok |-> FALSE, statusText |-> "", body |-> <<>>]}
    \cup
    IF ~IsCatalogued(Sanitize(code))
    THEN {[failed |-> FALSE, ok |-> FALSE, statusText |-> "Bad Request", body |-> UnknownEvent]}
    ELSE {[failed |-> FALSE, ok |-> TRUE, statusText |-> "OK", body |-> b] :
            b \in UNION {LET data == fetchEventData(Sanitize(code), reply)
                         IN  IF HasError(data) THEN {data}
                             ELSE {WithKey(data, "from_cache", FALSE),
                                   FromCache([data |-> data], 3600)} :
                         reply \in UpstreamReplies}}

\* what fetch() gives for ?list
ListExchanges ==
    {[failed |-> TRUE, ok |-> FALSE, statusText |-> "", body |-> <<>>],
     [failed |-> FALSE, ok |-> TRUE, statusText |-> "OK", body |-> listEvents]}

\* data.error || 'Unknown error'
ErrorOf(body) ==
    IF ~HasError(body) THEN <<"Unknown error">>
    ELSE IF "success" \in DOMAIN body THEN <<body.error>> ELSE body.error

\* mutant: the records of an error body are returned
apiFetchEventData_errorIgnored(x) ==
    IF x.failed THEN [threw |-> TRUE, message |-> <<"Failed to fetch">>, records |-> <<>>]
    ELSE IF ~x.ok
    THEN [threw |-> TRUE, message |-> <<"Failed to fetch event data: ", x.statusText>>,
          records |-> <<>>]
    ELSE [threw |-> FALSE, message |-> <<>>,
          records |-> IF "records" \in DOMAIN x.body THEN mapTransform(x.body.records)
                      ELSE <<>>]

\* api.ts fetchEventData 9-23 on what fetch gave
apiFetchEventData(x) ==
    IF x.failed THEN [threw |-> TRUE, message |-> <<"Failed to fetch">>, records |-> <<>>]
    ELSE IF ~x.ok
    THEN [threw |-> TRUE, message |-> <<"Failed to fetch event data: ", x.statusText>>,
          records |-> <<>>]
    ELSE IF HasError(x.body) \/ ~x.body.success
    THEN [threw |-> TRUE, message |-> ErrorOf(x.body), records |-> <<>>]
    ELSE [threw |-> FALSE, message |-> <<>>, records |-> mapTransform(x.body.records)]

\* api.ts fetchEventsList 111-120 on what fetch gave
fetchEventsList(x) ==
    IF x.failed THEN [called |-> TRUE, threw |-> TRUE, list |-> <<>>]
    ELSE IF ~x.ok THEN [called |-> TRUE, threw |-> TRUE, list |-> <<>>]
    ELSE [called |-> TRUE, threw |-> FALSE,
          list |-> IF "available_events" \in DOMAIN x.body THEN x.body.available_events
                   ELSE <<>>]

\* the useState initial values of AppProvider
AppStart ==
    [records |-> <<>>, selectedEvent |-> <<>>, highlightedRecordId |-> null,
     hoveredRecordId |-> null, isLoading |-> FALSE, error |-> <<>>]

NoCalls == [pending |-> <<>>, started |-> 0, settled |-> 0, last |-> <<>>]

NotListed == [called |-> FALSE, threw |-> FALSE, list |-> <<>>]

HoverIdle ==
    /\ debounce = <<>>
    /\ clock = 0

SearchIdle == search = <<>>

InitApp ==
    /\ app = AppStart
    /\ calls = NoCalls
    /\ eventsList = NotListed
    /\ cache \in {[c \in CacheFiles |-> NoEntry],
                  [c \in CacheFiles |->
                      IF c = Catalog[1]
                      THEN [exists |-> TRUE, mtime |-> 0, data |-> ParsedPages[OnePage(PreTag, <<HighJumpLine, SprintLine>>)]]
                      ELSE NoEntry]}
    /\ now = 0
    /\ req = <<>>
    /\ response = <<>>
    /\ fetches = <<>>
    /\ served = 0
    /\ pc = "app"
    /\ ParseIdle
    /\ NormIdle
    /\ DatesIdle
    /\ HoverIdle
    /\ SearchIdle

\* mutant: the select stays enabled while a load is in flight
SelectEvent_whileLoading(eventCode) ==
    /\ eventCode \in Options
    /\ IF eventCode = <<>>
       THEN /\ app' = [app EXCEPT !.records = <<>>, !.selectedEvent = <<>>]
            /\ UNCHANGED calls
       ELSE /\ calls.started < MaxSelections
            /\ app' = [app EXCEPT !.selectedEvent = eventCode, !.isLoading = TRUE,
                                  !.error = <<>>]
            /\ calls' = [calls EXCEPT !.pending = Append(@, eventCode), !.started = @ + 1]
    /\ UNCHANGED eventsList

\* the change event of the select (disabled while isLoading), and
\* handleEventChange 96-108 up to the await
SelectEvent(eventCode) ==
    /\ ~app.isLoading
    /\ eventCode \in Options
    /\ IF eventCode = <<>>
       THEN /\ app' = [app EXCEPT !.records = <<>>, !.selectedEvent = <<>>]
            /\ UNCHANGED calls
       ELSE /\ calls.started < MaxSelections
            /\ app' = [app EXCEPT !.selectedEvent = eventCode, !.isLoading = TRUE,
                                  !.error = <<>>]
            /\ calls' = [calls EXCEPT !.pending = Append(@, eventCode), !.started = @ + 1]
    /\ UNCHANGED eventsList

\* the pending calls without the k-th
WithoutCall(pending, k) == SubSeq(pending, 1, k - 1) \o SubSeq(pending, k + 1, Len(pending))

\* mutant: the finally block is left out
Settle_noFinally(k, x) ==
    /\ k \in 1..Len(calls.pending)
    /\ x \in EventExchanges(calls.pending[k])
    /\ LET data == apiFetchEventData(x)
       IN  /\ app' = IF data.threw
                     THEN [app EXCEPT !.error = data.message, !.records = <<>>]
                     ELSE [app EXCEPT !.records = data.records]
           /\ calls' = [calls EXCEPT !.pending = WithoutCall(@, k), !.settled = @ + 1,
                                     !.last = [event |-> calls.pending[k], given |-> x]]
    /\ UNCHANGED eventsList

\* handleEventChange 108-115 when the fetch of the k-th pending call settles
Settle(k, x) ==
    /\ k \in 1..Len(calls.pending)
    /\ x \in EventExchanges(calls.pending[k])
    /\ LET data == apiFetchEventData(x)
       IN  /\ app' = IF data.threw
                     THEN [app EXCEPT !.error = data.message, !.records = <<>>,
                                      !.isLoading = FALSE]
                     ELSE [app EXCEPT !.records = data.records, !.isLoading = FALSE]
           /\ calls' = [calls EXCEPT !.pending = WithoutCall(@, k), !.settled = @ + 1,
                                     !.last = [event |-> calls.pending[k], given |-> x]]
    /\ UNCHANGED eventsList

\* one call of fetchEventsList
FetchEventsList(x) ==
    /\ eventsList' = fetchEventsList(x)
    /\ UNCHANGED <<app, calls>>

AllExchanges == UNION {EventExchanges(c) : c \in CatalogCodes}

NextApp ==
    /\ \/ \E eventCode \in Options : SelectEvent(eventCode)
       \/ \E k \in 1..MaxSelections, x \in AllExchanges : Settle(k, x)
       \/ \E x \in ListExchanges : FetchEventsList(x)
    /\ UNCHANGED <<pc, parseVars, normVars, dateVars, cacheVars, debounce, clock, search>>

SpecApp == InitApp /\ [][NextApp]_vars

----------------------------------------------------------------------------
(* State machine: the event selector against the whole catalog.  The       *)
(* sources hold three versions of constants.ts; the build has one of them. *)
(* A selection is sent as ?event=code and answered by the main routing.    *)

\* array_keys($EVENTS) of scraper.php 31-98
BackendEvents ==
    << <<"m", "_", "1", "0", "0">>,
       <<"m", "_", "2", "0", "0">>,
       <<"m", "_", "4", "0", "0">>,
       <<"m", "_", "1", "1", "0", "h">>,
       <<"m", "_", "4", "0", "0", "h">>,
       <<"m", "_", "8", "0", "0">>,
       <<"m", "_", "1", "5", "0", "0">>,
       <<"m", "_", "m", "i", "l", "e">>,
       <<"m", "_", "3", "0", "0", "0">>,
       <<"m", "3", "0", "0", "0", "h">>,
       <<"m", "_", "5", "0", "0", "0">>,
       <<"m", "1", "0", "0", "0", "0">>,
       <<"m", "h", "m", "a", "r", "a">>,
       <<"m", "m", "a", "r", "a">>,
       <<"m", "2", "0", "k", "w">>,
       <<"m", "3", "5", "k", "w">>,
       <<"m", "5", "0", "k", "w">>,
       <<"m", "h", "i", "g", "h">>,
       <<"m", "p", "o", "l", "e">>,
       <<"m", "l", "o", "n", "g">>,
       <<"m", "t", "r", "i", "p">>,
       <<"m", "s", "h", "o", "t">>,
       <<"m", "d", "i", "s", "c">>,
       <<"m", "h", "a", "m", "m">>,
       <<"m", "j", "a", "v", "e">>,
       <<"m", "d", "e", "c", "a">>,
       <<"w", "_", "1", "0", "0">>,
       <<"w", "_", "2", "0", "0">>,
       <<"w", "_", "4", "0", "0">>,
       <<"w", "_", "1", "0", "0", "h">>,
       <<"w", "_", "4", "0", "0", "h">>,
       <<"w", "_", "8", "0", "0">>,
       <<"w", "_", "1", "5", "0", "0">>,
       <<"w", "_", "m", "i", "l", "e">>,
       <<"w", "_", "3", "0", "0", "0">>,
       <<"w", "3", "0", "0", "0", "h">>,
       <<"w", "_", "5", "0", "0", "0">>,
       <<"w", "1", "0", "0", "0", "0">>,
       <<"w", "h", "m", "a", "r", "a">>,
       <<"w", "m", "a", "r", "a">>,
       <<"w", "2", "0", "k", "w">>,
       <<"w", "3", "5", "k", "w">>,
       <<"w", "h", "i", "g", "h">>,
       <<"w", "p", "o", "l", "e">>,
       <<"w", "l", "o", "n", "g">>,
       <<"w", "t", "r", "i", "p">>,
       <<"w", "s", "h", "o", "t">>,
       <<"w", "d", "i", "s", "c">>,
       <<"w", "h", "a", "m", "m">>,
       <<"w", "j", "a", "v", "e">> >>

\* the codes of EVENTS in config/constants.ts 6-46
EVENTS ==
    << <<"m", "_", "1", "0", "0">>,
       <<"m", "_", "2", "0", "0">>,
       <<"m", "_", "4", "0", "0">>,
       <<"m", "_", "1", "1", "0", "h">>,
       <<"m", "_", "4", "0", "0", "h">>,
       <<"m", "_", "8", "0", "0">>,
       <<"m", "_", "1", "5", "0", "0">>,
       <<"m", "_", "m", "i", "l", "e">>,
       <<"m", "_", "3", "0", "0", "0">>,
       <<"m", "3", "0", "0", "0", "h">>,
       <<"m", "_", "5", "0", "0", "0">>,
       <<"m", "1", "0", "0", "0", "0">>,
       <<"m", "h", "m", "a", "r", "a">>,
       <<"m", "m", "a", "r", "a">>,
       <<"m", "2", "0", "k", "w">>,
       <<"m", "3", "5", "k", "w">>,
       <<"m", "5", "0", "k", "w">>,
       <<"m", "h", "i", "g", "h">>,
       <<"m", "p", "o", "l", "e">>,
       <<"m", "l", "o", "n", "g">>,
       <<"m", "t", "r", "i", "p">>,
       <<"m", "s", "h", "o", "t">>,
       <<"m", "d", "i", "s", "c">>,
       <<"m", "h", "a", "m", "m">>,
       <<"m", "j", "a", "v", "e">>,
       <<"m", "d", "e", "c", "a">>,
       <<"w", "_", "3", "0", "0", "0">>,
       <<"w", "_", "5", "0", "0", "0">>,
       <<"w", "1", "0", "0", "0", "0">>,
       <<"w", "h", "m", "a", "r", "a">>,
       <<"w", "m", "a", "r", "a">> >>

\* the codes of EVENTS in the shorter constants.ts
EVENTS_short ==
    << <<"m", "m", "a", "r", "a">>,
       <<"m", "h", "m", "a", "r", "a">>,
       <<"m", "1", "0", "0", "0", "0">>,
       <<"m", "_", "5", "0", "0", "0">>,
       <<"m", "_", "3", "0", "0", "0">>,
       <<"w", "m", "a", "r", "a">>,
       <<"w", "h", "m", "a", "r", "a">>,
       <<"w", "1", "0", "0", "0", "0">>,
       <<"w", "_", "5", "0", "0", "0">>,
       <<"w", "_", "3", "0", "0", "0">> >>

\* the codes of EVENTS in the constants.ts that holds FIELD_EVENTS
EVENTS_all ==
    << <<"m", "_", "1", "0", "0">>,
       <<"m", "_", "2", "0", "0">>,
       <<"m", "_", "4", "0", "0">>,
       <<"m", "_", "1", "1", "0", "h">>,
       <<"m", "_", "4", "0", "0", "h">>,
       <<"m", "_", "8", "0", "0">>,
       <<"m", "_", "1", "5", "0", "0">>,
       <<"m", "_", "m", "i", "l", "e">>,
       <<"m", "_", "3", "0", "0", "0">>,
       <<"m", "3", "0", "0", "0", "h">>,
       <<"m", "_", "5", "0", "0", "0">>,
       <<"m", "1", "0", "0", "0", "0">>,
       <<"m", "h", "m", "a", "r", "a">>,
       <<"m", "m", "a", "r", "a">>,
       <<"m", "2", "0", "k", "w">>,
       <<"m", "3", "5", "k", "w">>,
       <<"m", "5", "0", "k", "w">>,
       <<"m", "h", "i", "g", "h">>,
       <<"m", "p", "o", "l", "e">>,
       <<"m", "l", "o", "n", "g">>,
       <<"m", "t", "r", "i", "p">>,
       <<"m", "s", "h", "o", "t">>,
       <<"m", "d", "i", "s", "c">>,
       <<"m", "h", "a", "m", "m">>,
       <<"m", "j", "a", "v", "e">>,
       <<"m", "d", "e", "c", "a">>,
       <<"w", "_", "1", "0", "0">>,
       <<"w", "_", "2", "0", "0">>,
       <<"w", "_", "4", "0", "0">>,
       <<"w", "_", "1", "0", "0", "h">>,
       <<"w", "_", "4", "0", "0", "h">>,
       <<"w", "_", "8", "0", "0">>,
       <<"w", "_", "1", "5", "0", "0">>,
       <<"w", "_", "m", "i", "l", "e">>,
       <<"w", "_", "3", "0", "0", "0">>,
       <<"w", "3", "0", "0", "0", "h">>,
       <<"w", "_", "5", "0", "0", "0">>,
       <<"w", "1", "0", "0", "0", "0">>,
       <<"w", "h", "m", "a", "r", "a">>,
       <<"w", "m", "a", "r", "a">>,
       <<"w", "2", "0", "k", "w">>,
       <<"w", "3", "5", "k", "w">>,
       <<"w", "h", "i", "g", "h">>,
       <<"w", "p", "o", "l", "e">>,
       <<"w", "l", "o", "n", "g">>,
       <<"w", "t", "r", "i", "p">>,
       <<"w", "s", "h", "o", "t">>,
       <<"w", "d", "i", "s", "c">>,
       <<"w", "h", "a", "m", "m">>,
       <<"w", "j", "a", "v", "e">> >>

\* FIELD_EVENTS
FIELD_EVENTS ==
    << <<"m", "h", "i", "g", "h">>,
       <<"m", "p", "o", "l", "e">>,
       <<"m", "l", "o", "n", "g">>,
       <<"m", "t", "r", "i", "p">>,
       <<"m", "s", "h", "o", "t">>,
       <<"m", "d", "i", "s", "c">>,
       <<"m", "h", "a", "m", "m">>,
       <<"m", "j", "a", "v", "e">>,
       <<"m", "d", "e", "c", "a">>,
       <<"w", "h", "i", "g", "h">>,
       <<"w", "p", "o", "l", "e">>,
       <<"w", "l", "o", "n", "g">>,
       <<"w", "t", "r", "i", "p">>,
       <<"w", "s", "h", "o", "t">>,
       <<"w", "d", "i", "s", "c">>,
       <<"w", "h", "a", "m", "m">>,
       <<"w", "j", "a", "v", "e">> >>

CodesOf(list) == {list[k] : k \in 1..Len(list)}

\* the versions of EVENTS
Builds == {EVENTS, EVENTS_short, EVENTS_all}

\* isset($EVENTS[$event]) over the whole catalog
IsBackendEvent(event) == \E k \in 1..Len(BackendEvents) : BackendEvents[k] = event

\* main routing 313-327 for ?event=code: 400 for an unknown event, else the
\* result of getCachedOrFetch for the event
Routed(code) ==
    LET event == Sanitize(code)
    IN  IF ~IsBackendEvent(event) THEN [status |-> 400, body |-> UnknownEvent]
        ELSE [status |-> 200, body |-> [getCachedOrFetch |-> event]]

InitSelect ==
    /\ app = AppStart
    /\ calls \in {WithKey(NoCalls, "build", build) : build \in Builds}
    /\ eventsList = NotListed
    /\ response = NoResponse
    /\ cache = <<>>
    /\ now = 0
    /\ req = <<>>
    /\ fetches = <<>>
    /\ served = 0
    /\ pc = "select"
    /\ ParseIdle
    /\ NormIdle
    /\ DatesIdle
    /\ HoverIdle
    /\ SearchIdle

\* the change event of the select, handleEventChange 96-108, the request
ChooseEvent(eventCode) ==
    /\ ~app.isLoading
    /\ eventCode \in CodesOf(calls.build)
    /\ calls.started = 0
    /\ app' = [app EXCEPT !.selectedEvent = eventCode, !.isLoading = TRUE, !.error = <<>>]
    /\ calls' = [calls EXCEPT !.pending = <<eventCode>>, !.started = 1]
    /\ UNCHANGED response

\* the back end answers the request
Route ==
    /\ calls.pending # <<>>
    /\ response' = Routed(calls.pending[1])
    /\ calls' = [calls EXCEPT !.pending = <<>>, !.settled = 1]
    /\ UNCHANGED app

NextSelect ==
    /\ \/ \E eventCode \in CodesOf(EVENTS_all) : ChooseEvent(eventCode)
       \/ Route
    /\ UNCHANGED <<pc, parseVars, normVars, dateVars, cache, now, req, fetches, served,
                   eventsList, debounce, clock, search>>

SpecSelect == InitSelect /\ [][NextSelect]_vars

----------------------------------------------------------------------------
(* State machine: useHover.  Every component that calls the hook has its   *)
(* own debounceRef; hoveredRecordId is the one value of AppProvider.  A    *)
(* reference is null, or holds a timer that is pending or has fired.       *)

\* the delay of the setTimeout, milliseconds
HOVER_DELAY == 50

MaxClock == 100

ClockInstants == {t \in 1..MaxClock : t % 25 = 0}

\* ZoomableHistogram.tsx 72, part_001 41
Components == {"ZoomableHistogram", "MarkerClusterLayer"}

\* record.id of a record
IdOf(record) == IF "id" \in DOMAIN record THEN record.id ELSE undefined

\* the records on display: a fetched ranking
ShownRecords == mapTransform(ParsedPages[OnePage(PreTag, <<HighJumpLine, SprintLine>>)].records)

\* the ids the handlers pass for the bars and markers, and null for a leave
HoverArguments == {IdOf(ShownRecords[k]) : k \in 1..Len(ShownRecords)} \cup {null}

NoTimer == [state |-> "null", at |-> 0]

InitHover ==
    /\ app = [AppStart EXCEPT !.records = ShownRecords]
    /\ debounce = [ref |-> [c \in Components |-> NoTimer], by |-> "none", id |-> null]
    /\ clock = 0
    /\ calls = NoCalls
    /\ eventsList = NotListed
    /\ pc = "hover"
    /\ ParseIdle
    /\ NormIdle
    /\ DatesIdle
    /\ CacheIdle
    /\ SearchIdle

\* hover(id) called by component c: useHover 137-153
Hover(c, id) ==
    /\ debounce' = [debounce EXCEPT
                       !.ref[c] = IF id = null THEN [state |-> "pending", at |-> clock]
                                  ELSE NoTimer,
                       !.by = c, !.id = id]
    /\ app' = IF id = null THEN app ELSE [app EXCEPT !.hoveredRecordId = id]
    /\ UNCHANGED clock

\* the callback of the setTimeout of component c runs: useHover 146-148
ClearFires(c) ==
    /\ debounce.ref[c].state = "pending"
    /\ clock - debounce.ref[c].at >= HOVER_DELAY
    /\ app' = [app EXCEPT !.hoveredRecordId = null]
    /\ debounce' = [debounce EXCEPT !.ref[c].state = "fired"]
    /\ UNCHANGED clock

\* time passes
Elapse(t) ==
    /\ t > clock
    /\ clock' = t
    /\ UNCHANGED <<app, debounce>>

NextHover ==
    /\ \/ \E c \in Components, id \in HoverArguments : Hover(c, id)
       \/ \E c \in Components : ClearFires(c)
       \/ \E t \in ClockInstants : Elapse(t)
    /\ UNCHANGED <<pc, parseVars, normVars, dateVars, cacheVars, calls, eventsList, search>>

SpecHover == InitHover /\ [][NextHover]_vars

----------------------------------------------------------------------------
(* State machine: AthleteSearch and the click handlers of the histogram,   *)
(* over the records and highlightedRecordId of AppProvider.  selectedIndex *)
(* counts from 0 as in the code; sequences count from 1.                   *)

\* COUNTRY_NAMES of AthleteSearch.tsx 7-64: code, names
COUNTRY_NAMES ==
    << [code |-> <<"U", "S", "A">>,
        names |-> << <<"u", "n", "i", "t", "e", "d", " ", "s", "t", "a", "t", "e", "s">>,
                     <<"a", "m", "e", "r", "i", "c", "a">>,
                     <<"a", "m", "e", "r", "i", "c", "a", "n">>,
                     <<"u", "s">> >>],
       [code |-> <<"G", "B", "R">>,
        names |-> << <<"g", "r", "e", "a", "t", " ", "b", "r", "i", "t", "a", "i", "n">>,
                     <<"u", "n", "i", "t", "e", "d", " ", "k", "i", "n", "g", "d", "o", "m">>,
                     <<"u", "k">>,
                     <<"b", "r", "i", "t", "a", "i", "n">>,
                     <<"b", "r", "i", "t", "i", "s", "h">>,
                     <<"e", "n", "g", "l", "a", "n", "d">>,
                     <<"e", "n", "g", "l", "i", "s", "h">> >>],
       [code |-> <<"K", "E", "N">>,
        names |-> << <<"k", "e", "n", "y", "a">>,
                     <<"k", "e", "n", "y", "a", "n">> >>],
       [code |-> <<"E", "T", "H">>,
        names |-> << <<"e", "t", "h", "i", "o", "p", "i", "a">>,
                     <<"e", "t", "h", "i", "o", "p", "i", "a", "n">> >>],
       [code |-> <<"J", "A", "M">>,
        names |-> << <<"j", "a", "m", "a", "i", "c", "a">>,
                     <<"j", "a", "m", "a", "i", "c", "a", "n">> >>],
       [code |-> <<"J", "P", "N">>,
        names |-> << <<"j", "a", "p", "a", "n">>,
                     <<"j", "a", "p", "a", "n", "e", "s", "e">> >>],
       [code |-> <<"G", "E", "R">>,
        names |-> << <<"g", "e", "r", "m", "a", "n", "y">>,
                     <<"g", "e", "r", "m", "a", "n">>,
                     <<"d", "e", "u", "t", "s", "c", "h", "l", "a", "n", "d">> >>],
       [code |-> <<"F", "R", "A">>,
        names |-> << <<"f", "r", "a", "n", "c", "e">>,
                     <<"f", "r", "e", "n", "c", "h">> >>],
       [code |-> <<"I", "T", "A">>,
        names |-> << <<"i", "t", "a", "l", "y">>,
                     <<"i", "t", "a", "l", "i", "a", "n">> >>],
       [code |-> <<"E", "S", "P">>,
        names |-> << <<"s", "p", "a", "i", "n">>,
                     <<"s", "p", "a", "n", "i", "s", "h">> >>],
       [code |-> <<"C", "A", "N">>,
        names |-> << <<"c", "a", "n", "a", "d", "a">>,
                     <<"c", "a", "n", "a", "d", "i", "a", "n">> >>],
       [code |-> <<"A", "U", "S">>,
        names |-> << <<"a", "u", "s", "t", "r", "a", "l", "i", "a">>,
                     <<"a", "u", "s", "t", "r", "a", "l", "i", "a", "n">> >>],
       [code |-> <<"N", "Z", "L">>,
        names |-> << <<"n", "e", "w", " ", "z", "e", "a", "l", "a", "n", "d">>,
                     <<"k", "i", "w", "i">> >>],
       [code |-> <<"R", "S", "A">>,
        names |-> << <<"s", "o", "u", "t", "h", " ", "a", "f", "r", "i", "c", "a">>,
                     <<"s", "o", "u", "t", "h", " ", "a", "f", "r", "i", "c", "a", "n">> >>],
       [code |-> <<"C", "H", "N">>,
        names |-> << <<"c", "h", "i", "n", "a">>,
                     <<"c", "h", "i", "n", "e", "s", "e">> >>],
       [code |-> <<"R", "U", "S">>,
        names |-> << <<"r", "u", "s", "s", "i", "a">>,
                     <<"r", "u", "s", "s", "i", "a", "n">> >>],
       [code |-> <<"B", "R", "A">>,
        names |-> << <<"b", "r", "a", "z", "i", "l">>,
                     <<"b", "r", "a", "z", "i", "l", "i", "a", "n">> >>],
       [code |-> <<"M", "E", "X">>,
        names |-> << <<"m", "e", "x", "i", "c", "o">>,
                     <<"m", "e", "x", "i", "c", "a", "n">> >>],
       [code |-> <<"N", "E", "D">>,
        names |-> << <<"n", "e", "t", "h", "e", "r", "l", "a", "n", "d", "s">>,
                     <<"d", "u", "t", "c", "h">>,
                     <<"h", "o", "l", "l", "a", "n", "d">> >>],
       [code |-> <<"B", "E", "L">>,
        names |-> << <<"b", "e", "l", "g", "i", "u", "m">>,
                     <<"b", "e", "l", "g", "i", "a", "n">> >>],
       [code |-> <<"S", "W", "E">>,
        names |-> << <<"s", "w", "e", "d", "e", "n">>,
                     <<"s", "w", "e", "d", "i", "s", "h">> >>],
       [code |-> <<"N", "O", "R">>,
        names |-> << <<"n", "o", "r", "w", "a", "y">>,
                     <<"n", "o", "r", "w", "e", "g", "i", "a", "n">> >>],
       [code |-> <<"D", "E", "N">>,
        names |-> << <<"d", "e", "n", "m", "a", "r", "k">>,
                     <<"d", "a", "n", "i", "s", "h">> >>],
       [code |-> <<"F", "I", "N">>,
        names |-> << <<"f", "i", "n", "l", "a", "n", "d">>,
                     <<"f", "i", "n", "n", "i", "s", "h">> >>],
       [code |-> <<"P", "O", "L">>,
        names |-> << <<"p", "o", "l", "a", "n", "d">>,
                     <<"p", "o", "l", "i", "s", "h">> >>],
       [code |-> <<"U", "K", "R">>,
        names |-> << <<"u", "k", "r", "a", "i", "n", "e">>,
                     <<"u", "k", "r", "a", "i", "n", "i", "a", "n">> >>],
       [code |-> <<"I", "R", "L">>,
        names |-> << <<"i", "r", "e", "l", "a", "n", "d">>,
                     <<"i", "r", "i", "s", "h">> >>],
       [code |-> <<"P", "O", "R">>,
        names |-> << <<"p", "o", "r", "t", "u", "g", "a", "l">>,
                     <<"p", "o", "r", "t", "u", "g", "u", "e", "s", "e">> >>],
       [code |-> <<"M", "A", "R">>,
        names |-> << <<"m", "o", "r", "o", "c", "c", "o">>,
                     <<"m", "o", "r", "o", "c", "c", "a", "n">> >>],
       [code |-> <<"T", "U", "N">>,
        names |-> << <<"t", "u", "n", "i", "s", "i", "a">>,
                     <<"t", "u", "n", "i", "s", "i", "a", "n">> >>],
       [code |-> <<"A", "L", "G">>,
        names |-> << <<"a", "l", "g", "e", "r", "i", "a">>,
                     <<"a", "l", "g", "e", "r", "i", "a", "n">> >>],
       [code |-> <<"U", "G", "A">>,
        names |-> << <<"u", "g", "a", "n", "d", "a">>,
                     <<"u", "g", "a", "n", "d", "a", "n">> >>],
       [code |-> <<"T", "A", "N">>,
        names |-> << <<"t", "a", "n", "z", "a", "n", "i", "a">>,
                     <<"t", "a", "n", "z", "a", "n", "i", "a", "n">> >>],
       [code |-> <<"E", "R", "I">>,
        names |-> << <<"e", "r", "i", "t", "r", "e", "a">>,
                     <<"e", "r", "i", "t", "r", "e", "a", "n">> >>],
       [code |-> <<"S", "O", "M">>,
        names |-> << <<"s", "o", "m", "a", "l", "i", "a">>,
                     <<"s", "o", "m", "a", "l", "i">> >>],
       [code |-> <<"B", "R", "N">>,
        names |-> << <<"b", "a", "h", "r", "a", "i", "n">>,
                     <<"b", "a", "h", "r", "a", "i", "n", "i">> >>],
       [code |-> <<"Q", "A", "T">>,
        names |-> << <<"q", "a", "t", "a", "r">>,
                     <<"q", "a", "t", "a", "r", "i">> >>],
       [code |-> <<"T", "U", "R">>,
        names |-> << <<"t", "u", "r", "k", "e", "y">>,
                     <<"t", "u", "r", "k", "i", "s", "h">> >>],
       [code |-> <<"I", "N", "D">>,
        names |-> << <<"i", "n", "d", "i", "a">>,
                     <<"i", "n", "d", "i", "a", "n">> >>],
       [code |-> <<"P", "A", "K">>,
        names |-> << <<"p", "a", "k", "i", "s", "t", "a", "n">>,
                     <<"p", "a", "k", "i", "s", "t", "a", "n", "i">> >>],
       [code |-> <<"B", "A", "N">>,
        names |-> << <<"b", "a", "n", "g", "l", "a", "d", "e", "s", "h">>,
                     <<"b", "a", "n", "g", "l", "a", "d", "e", "s", "h", "i">> >>],
       [code |-> <<"S", "U", "I">>,
        names |-> << <<"s", "w", "i", "t", "z", "e", "r", "l", "a", "n", "d">>,
                     <<"s", "w", "i", "s", "s">> >>],
       [code |-> <<"A", "U", "T">>,
        names |-> << <<"a", "u", "s", "t", "r", "i", "a">>,
                     <<"a", "u", "s", "t", "r", "i", "a", "n">> >>],
       [code |-> <<"C", "Z", "E">>,
        names |-> << <<"c", "z", "e", "c", "h">>,
                     <<"c", "z", "e", "c", "h", "i", "a">>,
                     <<"c", "z", "e", "c", "h", " ", "r", "e", "p", "u", "b", "l", "i", "c">> >>],
       [code |-> <<"H", "U", "N">>,
        names |-> << <<"h", "u", "n", "g", "a", "r", "y">>,
                     <<"h", "u", "n", "g", "a", "r", "i", "a", "n">> >>],
       [code |-> <<"R", "O", "M">>,
        names |-> << <<"r", "o", "m", "a", "n", "i", "a">>,
                     <<"r", "o", "m", "a", "n", "i", "a", "n">> >>],
       [code |-> <<"B", "U", "L">>,
        names |-> << <<"b", "u", "l", "g", "a", "r", "i", "a">>,
                     <<"b", "u", "l", "g", "a", "r", "i", "a", "n">> >>],
       [code |-> <<"G", "R", "E">>,
        names |-> << <<"g", "r", "e", "e", "c", "e">>,
                     <<"g", "r", "e", "e", "k">> >>],
       [code |-> <<"S", "R", "B">>,
        names |-> << <<"s", "e", "r", "b", "i", "a">>,
                     <<"s", "e", "r", "b", "i", "a", "n">> >>],
       [code |-> <<"C", "R", "O">>,
        names |-> << <<"c", "r", "o", "a", "t", "i", "a">>,
                     <<"c", "r", "o", "a", "t", "i", "a", "n">> >>],
       [code |-> <<"S", "L", "O">>,
        names |-> << <<"s", "l", "o", "v", "e", "n", "i", "a">>,
                     <<"s", "l", "o", "v", "e", "n", "i", "a", "n">> >>],
       [code |-> <<"S", "V", "K">>,
        names |-> << <<"s", "l", "o", "v", "a", "k", "i", "a">>,
                     <<"s", "l", "o", "v", "a", "k">> >>],
       [code |-> <<"B", "L", "R">>,
        names |-> << <<"b", "e", "l", "a", "r", "u", "s">>,
                     <<"b", "e", "l", "a", "r", "u", "s", "i", "a", "n">> >>],
       [code |-> <<"L", "T", "U">>,
        names |-> << <<"l", "i", "t", "h", "u", "a", "n", "i", "a">>,
                     <<"l", "i", "t", "h", "u", "a", "n", "i", "a", "n">> >>],
       [code |-> <<"L", "A", "T">>,
        names |-> << <<"l", "a", "t", "v", "i", "a">>,
                     <<"l", "a", "t", "v", "i", "a", "n">> >>],
       [code |-> <<"E", "S", "T">>,
        names |-> << <<"e", "s", "t", "o", "n", "i", "a">>,
                     <<"e", "s", "t", "o", "n", "i", "a", "n">> >>] >>

\* String.prototype.toLowerCase on the alphabet of the model
toLowerCase(text) == [k \in 1..Len(text) |-> ToLower(text[k])]

\* String.prototype.includes
includes(text, term) ==
    \E i \in 0..(Len(text) - Len(term)) : SubSeq(text, i + 1, i + Len(term)) = term

\* String.prototype.trim for the white space of the alphabet
RECURSIVE jsTrim(_)
jsTrim(text) ==
    IF text # <<>> /\ IsSpace(Head(text)) THEN jsTrim(Tail(text))
    ELSE IF text # <<>> /\ IsSpace(text[Len(text)]) THEN jsTrim(SubSeq(text, 1, Len(text) - 1))
    ELSE text

\* x < y on numbers; false when one of them is NaN
LessThan(x, y) ==
    /\ ~IsNaN(x)
    /\ ~IsNaN(y)
    /\ LET e == IF x.e >= y.e THEN x.e ELSE y.e
       IN  x.n * Pow10(e - x.e) < y.n * Pow10(e - y.e)

\* the collation order of the characters of names: space, digits, letters
Collation == <<" ">> \o Digits \o LowerCase

CollationRank(c) ==
    IF \E i \in 1..Len(Collation) : Collation[i] = ToLower(c)
    THEN CHOOSE i \in 1..Len(Collation) : Collation[i] = ToLower(c)
    ELSE 0

\* a.localeCompare(b) < 0, for names that differ by more than case
RECURSIVE ComesBefore(_, _)
ComesBefore(a, b) ==
    IF b = <<>> THEN FALSE
    ELSE IF a = <<>> THEN TRUE
    ELSE IF CollationRank(Head(a)) # CollationRank(Head(b))
    THEN CollationRank(Head(a)) < CollationRank(Head(b))
    ELSE ComesBefore(Tail(a), Tail(b))

\* Array.prototype.sort with a comparator that is negative when Before
\* holds: stable, the elements that compare equal keep their order
Sorted(list, Before(_, _)) ==
    LET n == Len(list)
        place(i) == 1 + Cardinality({j \in 1..n :
                        /\ j # i
                        /\ \/ Before(list[j], list[i])
                           \/ ~Before(list[i], list[j]) /\ j < i})
    IN  [q \in 1..n |-> list[CHOOSE i \in 1..n : place(i) = q]]

\* the entries of athleteMap after the forEach over the first k records
RECURSIVE athleteMap(_, _)
athleteMap(recs, k) ==
    IF k = 0 THEN <<>>
    ELSE LET map    == athleteMap(recs, k - 1)
             record == recs[k]
             held   == {i \in 1..Len(map) : map[i].name = record.name}
         IN  IF held = {}
             THEN Append(map, [name |-> record.name, fastestRecord |-> record])
             ELSE LET i == CHOOSE h \in held : TRUE
                  IN  IF LessThan(record.timeSeconds, map[i].fastestRecord.timeSeconds)
                      THEN [map EXCEPT ![i].fastestRecord = record]
                      ELSE map

\* athleteOptions 100-115
athleteOptions(recs) ==
    Sorted(athleteMap(recs, Len(recs)), LAMBDA a, b : ComesBefore(a.name, b.name))

\* matchesCountry(countryCode, searchTerm) 75-85
matchesCountry(countryCode, searchTerm) ==
    LET term == toLowerCase(searchTerm)
    IN  \/ includes(toLowerCase(countryCode), term)
        \/ \E c \in 1..Len(COUNTRY_NAMES) :
              /\ COUNTRY_NAMES[c].code = countryCode
              /\ \E n \in 1..Len(COUNTRY_NAMES[c].names) :
                    includes(COUNTRY_NAMES[c].names[n], term)

\* isCountrySearch 118-125
isCountrySearch(searchTerm) ==
    LET trimmed == toLowerCase(jsTrim(searchTerm))
    IN  /\ trimmed # <<>>
        /\ \E c \in 1..Len(COUNTRY_NAMES) :
              \/ includes(toLowerCase(COUNTRY_NAMES[c].code), trimmed)
              \/ \E n \in 1..Len(COUNTRY_NAMES[c].names) :
                    includes(COUNTRY_NAMES[c].names[n], trimmed)

\* filteredAthletes 128-149
filteredAthletes(recs, searchTerm) ==
    LET trimmed == jsTrim(searchTerm)
        term    == toLowerCase(trimmed)
        matches == SelectSeq(athleteOptions(recs),
                             LAMBDA athlete :
                                 \/ includes(toLowerCase(athlete.name), term)
                                 \/ matchesCountry(athlete.fastestRecord.country, term))
        ordered == IF isCountrySearch(searchTerm)
                   THEN Sorted(matches, LAMBDA a, b : LessThan(a.fastestRecord.timeSeconds,
                                                               b.fastestRecord.timeSeconds))
                   ELSE matches
    IN  IF trimmed = <<>> THEN <<>>
        ELSE IF Len(trimmed) >= 3 THEN ordered
        ELSE SubSeq(ordered, 1, IF Len(ordered) < 10 THEN Len(ordered) ELSE 10)

YohanBlake == <<"Y", "o", "h", "a", "n", " ", "B", "l", "a", "k", "e">>

TysonGay == <<"T", "y", "s", "o", "n", " ", "G", "a", "y">>

\* a record of the back end for an athlete, a mark and a country
Performance(athlete, time, country) ==
    [BaseRecord EXCEPT !.athlete = athlete, !.time = time, !.country = country]

\* a ranking in which the best mark of an athlete is not his first record
SprintRanking ==
    mapTransform(<< Performance(UsainBolt, <<"9", ".", "6", "3">>, <<"J", "A", "M">>),
                    Performance(TysonGay, <<"9", ".", "6", "9">>, <<"U", "S", "A">>),
                    Performance(UsainBolt, <<"9", ".", "5", "8">>, <<"J", "A", "M">>),
                    Performance(YohanBlake, <<"9", ".", "6", "9">>, <<"J", "A", "M">>) >>)

\* the record lists setRecords is called with
Rankings == {SprintRanking, ShownRecords}

\* what is typed into the input
SearchTerms ==
    { <<>>, <<"b">>, <<"B", "o">>, <<" ", "b", "o", "l", "t", " ">>, <<"j", "a", "m">>,
      <<"u", "s">>, <<"a">>, <<"x", "x">> }

\* the value of the useMemo of filteredAthletes in the current render
Filtered == filteredAthletes(app.records, search.searchTerm)

Keys == {"ArrowDown", "ArrowUp", "Enter", "Escape"}

NoEvent == [kind |-> "none", at |-> 0]

InitSearch ==
    /\ app \in {[AppStart EXCEPT !.records = recs] : recs \in Rankings}
    /\ search = [searchTerm |-> <<>>, isOpen |-> FALSE, selectedIndex |-> 0, event |-> NoEvent]
    /\ calls = NoCalls
    /\ eventsList = NotListed
    /\ pc = "search"
    /\ ParseIdle
    /\ NormIdle
    /\ DatesIdle
    /\ CacheIdle
    /\ HoverIdle

\* the dropdown is rendered: 240; options is the value of filteredAthletes
\* in the render the handlers were created in
Dropdown(options) == search.isOpen /\ options # <<>>

\* handleInputChange 152-156
InputChange(value) ==
    /\ search' = [searchTerm |-> value, isOpen |-> TRUE, selectedIndex |-> 0,
                  event |-> [kind |-> "input", at |-> 0]]
    /\ UNCHANGED app

\* the state after handleSelectAthlete(athlete) 159-164
Selecting(athlete, kind, at) ==
    /\ search' = [search EXCEPT !.searchTerm = athlete.name, !.isOpen = FALSE,
                                !.event = [kind |-> kind, at |-> at]]
    /\ app' = [app EXCEPT !.highlightedRecordId = IdOf(athlete.fastestRecord)]

\* handleKeyDown 167-194
KeyDown(key, options) ==
    LET noted   == [kind |-> key, at |-> search.selectedIndex]
    IN  IF ~search.isOpen \/ Len(options) = 0
        THEN /\ search' = [search EXCEPT
                              !.isOpen = @ \/ (key = "ArrowDown" /\ search.searchTerm # <<>>),
                              !.event = [kind |-> "ignored", at |-> 0]]
             /\ UNCHANGED app
        ELSE CASE key = "ArrowDown" ->
                    /\ search' = [search EXCEPT
                                     !.selectedIndex = IF @ + 1 < Len(options) - 1 THEN @ + 1
                                                       ELSE Len(options) - 1,
                                     !.event = noted]
                    /\ UNCHANGED app
               [] key = "ArrowUp" ->
                    /\ search' = [search EXCEPT
                                     !.selectedIndex = IF @ - 1 > 0 THEN @ - 1 ELSE 0,
                                     !.event = noted]
                    /\ UNCHANGED app
               [] key = "Enter" ->
                    IF search.selectedIndex < Len(options)
                    THEN Selecting(options[search.selectedIndex + 1], key, search.selectedIndex)
                    ELSE /\ search' = [search EXCEPT !.event = noted]
                         /\ UNCHANGED app
               [] key = "Escape" ->
                    /\ search' = [search EXCEPT !.isOpen = FALSE, !.event = noted]
                    /\ UNCHANGED app

\* a click on the k-th option of the dropdown: 246
OptionClick(k, options) ==
    /\ Dropdown(options)
    /\ k \in 1..Len(options)
    /\ Selecting(options[k], "option", k - 1)

\* the pointer enters the k-th option: 247
OptionMouseEnter(k, options) ==
    /\ Dropdown(options)
    /\ k \in 1..Len(options)
    /\ search' = [search EXCEPT !.selectedIndex = k - 1,
                                !.event = [kind |-> "pointer", at |-> k - 1]]
    /\ UNCHANGED app

\* onFocus 232
Focus ==
    /\ search' = [search EXCEPT !.isOpen = @ \/ search.searchTerm # <<>>,
                                !.event = [kind |-> "focus", at |-> 0]]
    /\ UNCHANGED app

\* handleClickOutside 198-206
ClickOutside ==
    /\ search' = [search EXCEPT !.isOpen = FALSE, !.event = [kind |-> "outside", at |-> 0]]
    /\ UNCHANGED app

\* handleClear 213-218, the button of 234-238
Clear ==
    /\ search.searchTerm # <<>>
    /\ search' = [search EXCEPT !.searchTerm = <<>>, !.isOpen = FALSE,
                                !.event = [kind |-> "clear", at |-> 0]]
    /\ app' = [app EXCEPT !.highlightedRecordId = null]

\* setRecords with the records of another event
RecordsChange(recs) ==
    /\ recs # app.records
    /\ app' = [app EXCEPT !.records = recs]
    /\ search' = [search EXCEPT !.event = [kind |-> "records", at |-> 0]]

\* a click on the bar of the k-th record: handleBarClick 89-95, 247-250
BarClick(k) ==
    /\ k \in 1..Len(app.records)
    /\ app' = [app EXCEPT !.highlightedRecordId =
                  IF @ = IdOf(app.records[k]) THEN null ELSE IdOf(app.records[k])]
    /\ search' = [search EXCEPT !.event = [kind |-> "bar", at |-> k]]

\* a click on the chart itself: 266-270
BackgroundClick ==
    /\ app' = [app EXCEPT !.highlightedRecordId = null]
    /\ search' = [search EXCEPT !.event = [kind |-> "background", at |-> 0]]

MaxOptions == 4

\* the handlers of one render share its value of filteredAthletes
NextSearch ==
    LET options == Filtered IN
    /\ \/ \E value \in SearchTerms : InputChange(value)
       \/ \E key \in Keys : KeyDown(key, options)
       \/ \E k \in 1..MaxOptions : OptionClick(k, options)
       \/ \E k \in 1..MaxOptions : OptionMouseEnter(k, options)
       \/ Focus
       \/ ClickOutside
       \/ Clear
       \/ \E recs \in Rankings : RecordsChange(recs)
       \/ \E k \in 1..MaxOptions : BarClick(k)
       \/ BackgroundClick
    /\ UNCHANGED <<pc, parseVars, normVars, dateVars, cacheVars, calls, eventsList,
                   debounce, clock>>

SpecSearch == InitSearch /\ [][NextSearch]_vars

----------------------------------------------------------------------------
(* Vocabulary of the properties, stated without the parser's operators *)

Done == pc \in {"parsed", "fetched"}

\* the records[] positions that came from line i
RecordsFrom(i) == {k \in 1..Len(records) : srcLine[k] = i}

\* the trimmed text of the line records[k] came from
SourceOf(k) == trim(lines[srcLine[k]])

\* The foreach takes one line per step and never touches an earlier
\* record, so a property of "the line just taken" (line li) that holds in
\* every reachable state holds of every line of every page.
JustTaken == IF li >= 1 THEN {li} ELSE {}

JustAdded == IF li >= 1 THEN RecordsFrom(li) ELSE {}

\* a token starts at a non-blank that opens the line or follows two blanks
TokenStarts(line) ==
    {p \in 1..Len(line) :
        /\ ~IsSpace(line[p])
        /\ p = 1 \/ (p >= 3 /\ IsSpace(line[p - 1]) /\ IsSpace(line[p - 2]))}

\* a token ends at a non-blank that closes the line or precedes two blanks
TokenEnds(line) ==
    {p \in 1..Len(line) :
        /\ ~IsSpace(line[p])
        /\ p = Len(line) \/ (p + 2 <= Len(line) /\ IsSpace(line[p + 1]) /\ IsSpace(line[p + 2]))}

Kth(S, k) == CHOOSE p \in S : Cardinality({q \in S : q < p}) = k - 1

\* the tokens of a trimmed line, in column order
TokensOf(line) ==
    [k \in 1..Cardinality(TokenStarts(line)) |->
        SubSeq(line, Kth(TokenStarts(line), k), Kth(TokenEnds(line), k))]

ContainsWord(line, word) ==
    \E p \in 1..(Len(line) - Len(word) + 1) :
        [k \in 1..Len(word) |-> ToLower(line[p + k - 1])] = word

\* a trimmed line the noise filters drop
IsNoise(line) ==
    \/ line = <<>>
    \/ line[1] \in {"+", "#", "*", "=", "-"}
    \/ \E k \in 1..Len(NoiseKeywords) : ContainsWord(line, NoiseKeywords[k])

\* the first token of the token list is made of decimal digits only
HasNumericRank(parts) ==
    /\ parts # <<>>
    /\ \A p \in 1..Len(parts[1]) : IsDigit(parts[1][p])

\* sign? digits* .? digits+ with magnitude at most 10
IsWindReading(w) ==
    \E s \in 0..1, i \in 0..Len(w), d \in 0..1 :
        /\ s <= i /\ i + d < Len(w)
        /\ s = 1 => w[1] \in {"+", "-", PlusMinus}
        /\ d = 1 => w[i + 1] = "."
        /\ AllDigits(SubSeq(w, s + 1, i))
        /\ AllDigits(SubSeq(w, i + d + 1, Len(w)))
        /\ IF d = 1
           THEN DigitsValue(SubSeq(w, s + 1, i)) * Pow10(Len(w) - i - 1)
                    + DigitsValue(SubSeq(w, i + 2, Len(w))) <= 10 * Pow10(Len(w) - i - 1)
           ELSE DigitsValue(SubSeq(w, s + 1, Len(w))) <= 10

WindDetected(parts) == Len(parts) >= 9 /\ IsWindReading(parts[3])

----------------------------------------------------------------------------
(* C1 .. C6: parseHtml *)

\* C1 as stated: a candidate line yields exactly one record when it has 8
\* or 9 tokens and an all-digit first token, and none otherwise (so none
\* for a line of more than 9 tokens).
C1_OneRecordIffEightOrNineTokens ==
    \A i \in JustTaken :
        LET parts == TokensOf(trim(lines[i]))
        IN  ~IsNoise(trim(lines[i])) =>
                Cardinality(RecordsFrom(i)) =
                    IF Len(parts) \in 8..9 /\ HasNumericRank(parts) THEN 1 ELSE 0

\* C1 amended: a candidate line yields exactly one record when it has 8 or
\* more tokens and an all-digit first token, and none otherwise.
C1_OneRecordIffAtLeastEightTokens ==
    \A i \in JustTaken :
        LET parts == TokensOf(trim(lines[i]))
        IN  ~IsNoise(trim(lines[i])) =>
                Cardinality(RecordsFrom(i)) =
                    IF Len(parts) >= 8 /\ HasNumericRank(parts) THEN 1 ELSE 0

C1_Witness ==
    /\ pc = "loop"
    /\ \E i \in JustTaken :
        /\ ~IsNoise(trim(lines[i]))
        /\ Len(TokensOf(trim(lines[i]))) > 9
        /\ HasNumericRank(TokensOf(trim(lines[i])))
        /\ Cardinality(RecordsFrom(i)) = 1

\* C2: the wind of every record is parts[2] exactly when the line has at
\* least 9 tokens and parts[2] is sign? digits* .? digits+ of magnitude at
\* most 10, and is the empty string otherwise.
C2_WindIffShapeAndMagnitude ==
    \A k \in JustAdded :
        LET parts == TokensOf(SourceOf(k))
        IN  records[k].wind = IF WindDetected(parts) THEN parts[3] ELSE <<>>

C2_Witness ==
    /\ pc = "loop"
    /\ \E k \in JustAdded :
        /\ records[k].wind = <<"1", "0", ".", "0">>
        /\ TokensOf(SourceOf(k))[3] = <<"1", "0", ".", "0">>

\* C3: every record takes rank and time from parts[0] and parts[1] and the
\* six following fields from parts[2 + offset] on, offset being 1 exactly
\* when a wind reading was detected; the two example lines give the
\* stated wind and athlete.
C3_FieldsFollowColumnOrder ==
    \A k \in JustAdded :
        LET parts  == TokensOf(SourceOf(k))
            offset == IF WindDetected(parts) THEN 1 ELSE 0
        IN  /\ records[k].rank = parts[1]
            /\ records[k].time = parts[2]
            /\ records[k].athlete = parts[3 + offset]
            /\ records[k].country = parts[4 + offset]
            /\ records[k].dob = parts[5 + offset]
            /\ records[k].position = parts[6 + offset]
            /\ records[k].location = parts[7 + offset]
            /\ records[k].date = parts[8 + offset]
            /\ SourceOf(k) = SprintLine =>
                   /\ records[k].wind = <<"+", "0", ".", "9">>
                   /\ records[k].athlete = UsainBolt
            /\ SourceOf(k) = HighJumpLine =>
                   /\ records[k].wind = <<>>
                   /\ records[k].athlete = Barshim

C3_Witness ==
    /\ pc = "loop"
    /\ \E k \in JustAdded :
        /\ Len(TokensOf(SourceOf(k))) = 9
        /\ ~IsWindReading(TokensOf(SourceOf(k))[3])
        /\ records[k].athlete = TokensOf(SourceOf(k))[3]
        /\ records[k].date = TokensOf(SourceOf(k))[8]

\* C4: no record comes from a line that, trimmed, is empty, starts with
\* one of + # * = -, or contains indoor, oversized or intermediate in any
\* letter case.
C4_NoRecordFromNoiseLine ==
    \A k \in JustAdded : ~IsNoise(SourceOf(k))

C4_Witness ==
    /\ pc = "loop"
    /\ \E i \in JustTaken :
        /\ ContainsWord(trim(lines[i]), NoiseKeywords[1])
        /\ Len(TokensOf(trim(lines[i]))) >= 8
        /\ HasNumericRank(TokensOf(trim(lines[i])))
        /\ RecordsFrom(i) = {}

\* the records parseHtml's foreach collects from a text
RECURSIVE RecordsOfLines(_)
RecordsOfLines(ls) ==
    IF ls = <<>> THEN <<>> ELSE ParseLine(Head(ls)) \o RecordsOfLines(Tail(ls))

\* C5: a page without the opening marker gives the failed result (success
\* false, an error message, count 0, no records) and no line is examined;
\* a page with it gives the records of the text between the first opening
\* marker and the first closing marker (or the end of input) and of
\* nothing else.
C5_NoMarkerFailsElseOnlyBodyCounts ==
    Done =>
        IF doc.marker \in OpeningMarkers
        THEN /\ result.success
             /\ result.records =
                    RecordsOfLines(explode(html_entity_decode(BodyText(doc.body))))
        ELSE /\ result = [success |-> FALSE, error |-> "No PRE tag found in HTML",
                          count |-> 0, records |-> <<>>]
             /\ lines = <<>> /\ li = 0 /\ records = <<>>

C5_Witness ==
    /\ pc = "parsed"
    /\ doc.marker \in NotMarkers \ {<<>>}
    /\ doc.body[1] = SprintLine
    /\ doc.preface # <<>>
    /\ ~result.success /\ result.count = 0

\* C6: in a successful result count is the number of records, a line
\* gives at most one record, the records keep the order of their lines,
\* a page with the marker succeeds without an error however many lines
\* were rejected, and the client's normalized list has the length and the
\* order of the records.
C6_CountOrderAndSilentRejection ==
    /\ Done /\ result.success =>
           /\ result.count = Len(result.records)
           /\ result.records = records
           /\ \A j, k \in 1..Len(records) : j < k => srcLine[j] < srcLine[k]
    /\ Done /\ doc.marker \in OpeningMarkers => result.success /\ result.error = ""
    /\ \A k \in JustAdded : ParseLine(lines[srcLine[k]]) = <<records[k]>>
    /\ pc = "fetched" /\ result.success =>
           /\ ~client.threw
           /\ Len(client.records) = Len(result.records)
           /\ \A k \in 1..Len(result.records) :
                  /\ client.records[k].name = result.records[k].athlete
                  /\ client.records[k].time = result.records[k].time
                  /\ client.records[k].date = result.records[k].date
                  /\ client.records[k].city = result.records[k].location

C6_Witness ==
    /\ pc = "fetched"
    /\ Len(client.records) >= 2
    /\ client.records[1].name # client.records[2].name
    /\ \E i \in 1..li : trim(lines[i]) # <<>> /\ RecordsFrom(i) = {}

----------------------------------------------------------------------------
(* C7 .. C10: parseTimeToSeconds and parseDateToDays *)

\* a non-empty string of decimal digits
IsNatStr(t) == t # <<>> /\ \A p \in 1..Len(t) : IsDigit(t[p])

DotsOf(t) == {p \in 1..Len(t) : t[p] = "."}

\* digits with at most one decimal point and at least one digit
IsDecimalStr(t) ==
    /\ \A p \in 1..Len(t) : IsDigit(t[p]) \/ t[p] = "."
    /\ Cardinality(DotsOf(t)) <= 1
    /\ \E p \in 1..Len(t) : IsDigit(t[p])

\* the value of a decimal string
DecimalOf(t) ==
    IF DotsOf(t) = {} THEN Num(DigitsValue(t))
    ELSE LET p == CHOOSE q \in DotsOf(t) : TRUE
         IN  Norm(Dec(DigitsValue(SubSeq(t, 1, p - 1)) * Pow10(Len(t) - p)
                         + DigitsValue(SubSeq(t, p + 1, Len(t))), Len(t) - p))

ColonParts(t) == split(t, ":")

\* one, two or three colon-separated numeric parts
IsNumericTime(t) ==
    /\ Len(ColonParts(t)) \in 1..3
    /\ \A k \in 1..(Len(ColonParts(t)) - 1) : IsNatStr(ColonParts(t)[k])
    /\ IsDecimalStr(ColonParts(t)[Len(ColonParts(t))])

\* hours*3600 + minutes*60 + seconds, minutes*60 + seconds, or the value
SecondsOf(t) ==
    LET ps == ColonParts(t)
    IN  IF Len(ps) = 3
        THEN Plus(Num(DigitsValue(ps[1]) * 3600 + DigitsValue(ps[2]) * 60), DecimalOf(ps[3]))
        ELSE IF Len(ps) = 2
        THEN Plus(Num(DigitsValue(ps[1]) * 60), DecimalOf(ps[2]))
        ELSE DecimalOf(ps[1])

Normalized == pc = "normalized"

\* C7: for one, two or three numeric parts parseTimeToSeconds returns the
\* value, minutes*60 + seconds, or hours*3600 + minutes*60 + seconds;
\* "2:04:15.6" gives 7455.6, "9.58" gives 9.58, "44.72" gives 44.72.
C7_TimeIsWeightedSumOfParts ==
    Normalized =>
        /\ IsNumericTime(apiRecord.time) =>
               normalized.timeSeconds = SecondsOf(apiRecord.time)
        /\ apiRecord.time = <<"2", ":", "0", "4", ":", "1", "5", ".", "6">> =>
               normalized.timeSeconds = Dec(74556, 1)
        /\ apiRecord.time = <<"9", ".", "5", "8">> => normalized.timeSeconds = Dec(958, 2)
        /\ apiRecord.time = <<"4", "4", ".", "7", "2">> =>
               normalized.timeSeconds = Dec(4472, 2)

C7_Witness ==
    /\ Normalized
    /\ apiRecord.time = <<"2", ":", "0", "4", ":", "1", "5", ".", "6">>
    /\ normalized.timeSeconds = Dec(74556, 1)

HasDigit(t) == \E p \in 1..Len(t) : IsDigit(t[p])

\* surely not a time: more than two colons, or a part without any digit
\* (the empty string, "ab:cd", "1:xx:30")
IsUnparseableTime(t) ==
    \/ Len(ColonParts(t)) > 3
    \/ \E k \in 1..Len(ColonParts(t)) : ~HasDigit(ColonParts(t)[k])

\* C8 as stated: parseTimeToSeconds never returns NaN, and returns 0 for
\* every string that is not parseable as a time (empty, a non-numeric
\* part, more than two colons).
C8_UnparseableTimeIsZeroNeverNaN ==
    Normalized =>
        /\ ~IsNaN(normalized.timeSeconds)
        /\ IsUnparseableTime(apiRecord.time) => normalized.timeSeconds = Num(0)

DotParts(t) == split(t, ".")

\* three dot-separated parts, each a string of digits
IsNumericDate(t) ==
    /\ Len(DotParts(t)) = 3
    /\ \A k \in 1..3 : IsNatStr(DotParts(t)[k])

\* C9: for DD.MM.YYYY with numeric parts parseDateToDays returns
\* year*360 + month*30 + day, and transformRecord stores that value as
\* dateValue of the record's event date.
C9_DateOrdinalIs360DayCalendar ==
    Normalized =>
        /\ IsNumericDate(apiRecord.date) =>
               normalized.dateValue =
                   Num(DigitsValue(DotParts(apiRecord.date)[3]) * 360
                       + DigitsValue(DotParts(apiRecord.date)[2]) * 30
                       + DigitsValue(DotParts(apiRecord.date)[1]))
        /\ Len(apiRecord.date) = 10 =>
               \A d \in 1..31, m \in 1..12, y \in {1986, 2009} :
                   apiRecord.date = FormatDate(d, m, y) =>
                       normalized.dateValue = Num(y * 360 + m * 30 + d)

C9_Witness ==
    /\ Normalized
    /\ apiRecord.date = <<"1", "6", ".", "0", "8", ".", "2", "0", "0", "9">>
    /\ normalized.dateValue = Num(723496)

\* surely malformed: empty, not three dot-separated parts, or a part
\* without any digit ("xx.yy.zzzz")
IsMalformedDate(t) ==
    \/ t = <<>>
    \/ Len(DotParts(t)) # 3
    \/ \E k \in 1..Len(DotParts(t)) : ~HasDigit(DotParts(t)[k])

\* C10 as stated: parseDateToDays returns 0 for every date string that is
\* empty, has not exactly three dot-separated parts, or has a non-numeric
\* part.
C10_MalformedDateIsZero ==
    Normalized =>
        (IsMalformedDate(apiRecord.date) => normalized.dateValue = Num(0))

----------------------------------------------------------------------------
(* C11 .. C17: parseDateToDays on two dates, transformRecord *)

\* day, month and year written in a DD.MM.YYYY string
DayOf(t) == DigitsValue(SubSeq(t, 1, 2))

MonthOf(t) == DigitsValue(SubSeq(t, 4, 5))

YearOf(t) == DigitsValue(SubSeq(t, 7, Len(t)))

\* A is an earlier day than B of the same year
EarlierInYear(a, b) ==
    /\ YearOf(a) = YearOf(b)
    /\ \/ MonthOf(a) < MonthOf(b)
       \/ MonthOf(a) = MonthOf(b) /\ DayOf(a) < DayOf(b)

\* A is the 31st of a month and B the 1st of the month after it
AcrossMonthEnd(a, b) ==
    DayOf(a) = 31 /\ DayOf(b) = 1 /\ MonthOf(b) = MonthOf(a) + 1

DaysParsed == pc = "days"

\* C11 as stated: for two dates A, B of one year (days 1..31, months 1..12)
\* with A strictly before B, the day-ordinal of A is strictly less than the
\* day-ordinal of B.
C11_EarlierDateHasSmallerOrdinal ==
    DaysParsed /\ EarlierInYear(datePair[1], datePair[2]) =>
        /\ ~IsNaN(dayPair[1]) /\ ~IsNaN(dayPair[2])
        /\ dayPair[1].e = 0 /\ dayPair[2].e = 0
        /\ dayPair[1].n < dayPair[2].n

\* C11 amended: with A strictly before B in one year the day-ordinal of A is
\* never greater than that of B, and the two are equal exactly when A is the
\* 31st of a month and B the 1st of the next month.
C11_EarlierDateHasNoGreaterOrdinal ==
    DaysParsed /\ EarlierInYear(datePair[1], datePair[2]) =>
        /\ ~IsNaN(dayPair[1]) /\ ~IsNaN(dayPair[2])
        /\ dayPair[1].e = 0 /\ dayPair[2].e = 0
        /\ dayPair[1].n <= dayPair[2].n
        /\ dayPair[1].n = dayPair[2].n <=> AcrossMonthEnd(datePair[1], datePair[2])

\* 31.01.2009 and 01.02.2009 both have the ordinal 2009 * 360 + 61
C11_Witness ==
    /\ DaysParsed
    /\ datePair = <<FormatDate(31, 1, 2009), FormatDate(1, 2, 2009)>>
    /\ EarlierInYear(datePair[1], datePair[2])
    /\ dayPair = <<Num(2009 * 360 + 61), Num(2009 * 360 + 61)>>

\* the parts of a birth date written DD.MM.YY with two digits of year
HasTwoDigitYear(t) == Len(DotParts(t)) = 3 /\ Len(DotParts(t)[3]) = 2 /\ IsNatStr(DotParts(t)[3])

\* the year the two digits stand for
ResolvedYear(yy) == IF yy > 30 THEN 1900 + yy ELSE 2000 + yy

\* C12: a birth date whose year part is two digits YY gets the year 1900+YY
\* when YY > 30 and 2000+YY otherwise, day and month kept as written; a birth
\* date whose year part is not two digits is left unchanged.
C12_TwoDigitYearResolvedElseUnchanged ==
    Normalized =>
        IF HasTwoDigitYear(apiRecord.dob)
        THEN normalized.birthDate =
                 DotParts(apiRecord.dob)[1] \o <<".">> \o DotParts(apiRecord.dob)[2] \o <<".">>
                 \o NatToStr(ResolvedYear(DigitsValue(DotParts(apiRecord.dob)[3])))
        ELSE normalized.birthDate = apiRecord.dob

\* year*360 + month*30 + day of a date with three numeric parts
OrdinalOf(t) ==
    DigitsValue(DotParts(t)[3]) * 360 + DigitsValue(DotParts(t)[2]) * 30
    + DigitsValue(DotParts(t)[1])

\* q is the floor of v / 360
IsFloorOf360th(q, v) == 360 * q <= v /\ v < 360 * (q + 1)

\* C13: ageValue is the day-ordinal of the event date minus the day-ordinal
\* of the century-resolved birth date, and ageYears is floor(ageValue / 360);
\* birth 21.08.1986 and event 16.08.2009 give 22 years.
C13_AgeIsOrdinalDifferenceFlooredToYears ==
    Normalized =>
        /\ IsNumericDate(normalized.birthDate) =>
               normalized.ageValue =
                   Minus(normalized.dateValue, Num(OrdinalOf(normalized.birthDate)))
        /\ IsNumericDate(normalized.birthDate) /\ IsNumericDate(apiRecord.date) =>
               normalized.ageValue =
                   Num(OrdinalOf(apiRecord.date) - OrdinalOf(normalized.birthDate))
        /\ IF IsNaN(normalized.ageValue) THEN IsNaN(normalized.ageYears)
           ELSE /\ ~IsNaN(normalized.ageYears)
                /\ normalized.ageValue.e = 0 /\ normalized.ageYears.e = 0
                /\ IsFloorOf360th(normalized.ageYears.n, normalized.ageValue.n)
        /\ normalized.birthDate = FormatDate(21, 8, 1986)
             /\ apiRecord.date = FormatDate(16, 8, 2009)
           => normalized.ageYears = Num(22)

\* 21.08.86 is resolved to 21.08.1986; with the event of 16.08.2009 the age
\* is 8275 days, 22 years
C13_Witness ==
    /\ Normalized
    /\ apiRecord.dob = FormatDob(21, 8, 86)
    /\ apiRecord.date = FormatDate(16, 8, 2009)
    /\ normalized.birthDate = FormatDate(21, 8, 1986)
    /\ normalized.ageValue = Num(8275)
    /\ normalized.ageYears = Num(22)

\* C14 as stated: the numeric rank is the integer value of the raw rank
\* whenever the raw rank is a digit string ("0" included), and index + 1 only
\* when the raw rank does not parse as an integer (no digit at all, as "").
C14_RankIsParsedValueElseIndexPlusOne ==
    Normalized =>
        /\ IsNatStr(apiRecord.rank) => normalized.rank = Num(DigitsValue(apiRecord.rank))
        /\ ~HasDigit(apiRecord.rank) => normalized.rank = Num(index + 1)

Fetched == pc = "fetched"

\* C15 as stated: every record fetchEventData returns carries a numeric id
\* equal to its position in the returned sequence, so the ids of one result
\* set are pairwise distinct.
C15_EveryRecordCarriesItsPositionAsId ==
    Fetched =>
        \A k \in 1..Len(client.records) :
            /\ "id" \in DOMAIN client.records[k]
            /\ client.records[k].id = Num(k - 1)

\* C17 as stated: every record the parser emits and the client normalizes
\* has a timeSeconds that is a number greater than or equal to 0.
C17_TimeSecondsIsNonNegativeNumber ==
    Fetched =>
        \A k \in 1..Len(client.records) :
            /\ ~IsNaN(client.records[k].timeSeconds)
            /\ client.records[k].timeSeconds.n >= 0

----------------------------------------------------------------------------
(* C18 .. C20: the cache of scraper.php *)

\* p has answered a ?event=CODE request
EventAnswered(p) == req[p].stage = "done" /\ req[p].kind = "event"

\* C18 as stated: every response to a request for a catalogued event is a
\* result with a non-empty record list or an error object; a page with the
\* data block and no valid line gives no success result with zero records,
\* and no such result is stored in the cache.
C18_PopulatedListOrExplicitError ==
    /\ \A p \in Procs :
           EventAnswered(p) =>
               \/ HasError(response[p].body)
               \/ response[p].body.records # <<>>
    /\ \A c \in CatalogCodes :
           cache[c].exists => cache[c].data.records # <<>>

SevenDays == 7 * 24 * 60 * 60

\* the entry of c is there and less than seven days old
IsFresh(c) == cache[c].exists /\ now - cache[c].mtime < SevenDays

\* the array is the cached one, marked as served from the cache
IsServedCopyOf(body, data) ==
    /\ "from_cache" \in DOMAIN body
    /\ body.from_cache = TRUE
    /\ \A k \in DOMAIN data \ {"from_cache"} : k \in DOMAIN body /\ body[k] = data[k]

\* p leaves the look at the cache file
LeavesCheck(p) == req[p].stage = "check" /\ req'[p].stage # "check"

\* C19: a non-forced request is answered from the cache entry, marked
\* from_cache = true and without upstream fetch, whenever the entry exists
\* and is less than 7 days old; it fetches upstream whenever the entry is
\* absent or 7 days old or older, and then never answers from the cache.
C19_NonForcedServesFreshEntryElseFetches ==
    /\ [][\A p \in Procs :
             LeavesCheck(p) /\ ~req[p].force =>
                 IF IsFresh(req[p].event)
                 THEN /\ req'[p].stage = "done"
                      /\ IsServedCopyOf(response'[p].body, cache[req[p].event].data)
                      /\ fetches'[p] = 0
                      /\ cache' = cache
                 ELSE /\ req'[p].stage = "fetch"
                      /\ response'[p] = NoResponse]_vars
    /\ [](\A p \in Procs :
             EventAnswered(p) /\ ~req[p].force =>
                 IF "from_cache" \in DOMAIN response[p].body /\ response[p].body.from_cache
                 THEN fetches[p] = 0
                 ELSE fetches[p] = 1)

\* a non-forced request answered from an entry one second short of 7 days
C19_Witness ==
    \E p \in Procs :
        /\ EventAnswered(p) /\ ~req[p].force
        /\ cache[req[p].event].exists
        /\ now - cache[req[p].event].mtime = SevenDays - 1
        /\ IsServedCopyOf(response[p].body, cache[req[p].event].data)
        /\ response[p].body.cache_age_hours = Num(168)
        /\ fetches[p] = 0

\* p ends getCachedOrFetch with the fetched $data
LeavesStore(p) == req[p].stage = "store" /\ req'[p].stage # "store"

\* p has answered an ?update_all request
AllUpdated(p) == req[p].stage = "done" /\ req[p].kind = "update_all"

\* C20: a forced refresh (?event=CODE&refresh=1, or ?update_all=1 for every
\* catalogued event) is never answered from the cache: it always fetches
\* upstream, returns from_cache = false on success, and on success replaces
\* the cache entry of the event with the whole new result.
C20_ForcedRefreshFetchesAndReplaces ==
    /\ [][\A p \in Procs :
             LeavesCheck(p) /\ req[p].force =>
                 req'[p].stage = "fetch" /\ response'[p] = NoResponse]_vars
    /\ [][\A p \in Procs :
             LeavesStore(p) /\ req[p].force /\ ~HasError(req[p].data) =>
                 LET returned == IF req[p].kind = "event" THEN response'[p].body
                                 ELSE req'[p].results[Len(req'[p].results)].data
                 IN  /\ "from_cache" \in DOMAIN returned
                     /\ returned.from_cache = FALSE
                     /\ Without(returned, "from_cache") = req[p].data
                     /\ cache'[req[p].event] =
                            [exists |-> TRUE, data |-> returned, mtime |-> now]]_vars
    /\ [](\A p \in Procs :
             /\ EventAnswered(p) /\ req[p].force => fetches[p] = 1
             /\ AllUpdated(p) =>
                    /\ fetches[p] = Len(Catalog)
                    /\ response[p].body.events = Catalog
                    /\ \A k \in 1..Len(Catalog) :
                           /\ req[p].results[k].code = Catalog[k]
                           /\ "from_cache" \in DOMAIN req[p].results[k].data
                                  => req[p].results[k].data.from_cache = FALSE)

\* ?event=CODE&refresh=1 answered with a new ranking, fetched although
\* requests had been answered before, and stored as the entry of the event
C20_Witness ==
    \E p \in Procs :
        /\ EventAnswered(p) /\ req[p].force
        /\ served >= 2
        /\ fetches[p] = 1
        /\ ~HasError(response[p].body)
        /\ response[p].body.from_cache = FALSE
        /\ response[p].body.records # <<>>
        /\ cache[req[p].event] =
               [exists |-> TRUE, data |-> response[p].body, mtime |-> now]

----------------------------------------------------------------------------
(* C21 .. C23: the cache of scraper.php, failures and races *)

\* the upstream reply is a failed fetch or a page without data block
IsFailedReply(reply) == ~reply.ok \/ stripos(reply.html, PreTag) = -1

\* p is handed the reply of the upstream server
Fetches(p, reply) ==
    /\ req[p].stage = "fetch"
    /\ req'[p].stage = "store"
    /\ req'[p].data = fetchEventData(req[p].event, reply)

\* C22: a failed refresh (upstream fetch failed, or page without data block)
\* writes nothing: the cache entry of the event, fresh or stale, stays as it
\* was, the error result is returned and not the stale entry, and no entry
\* with an error is ever stored.
C22_FailedRefreshLeavesCacheUnchanged ==
    /\ [][\A p \in Procs : \A reply \in UpstreamReplies :
             Fetches(p, reply) /\ IsFailedReply(reply) =>
                 /\ cache' = cache
                 /\ HasError(req'[p].data)]_vars
    /\ [][\A p \in Procs :
             LeavesStore(p) /\ HasError(req[p].data) =>
                 /\ cache' = cache
                 /\ req[p].kind = "event" =>
                        /\ response'[p].body = req[p].data
                        /\ "from_cache" \notin DOMAIN response'[p].body]_vars
    /\ [](\A c \in CatalogCodes : cache[c].exists => ~HasError(cache[c].data))

\* a request that found an older entry, fetched, and answered with the error
\* while the entry is still the older one
C22_Witness ==
    \E p \in Procs :
        /\ EventAnswered(p)
        /\ fetches[p] = 1
        /\ HasError(response[p].body)
        /\ cache[req[p].event].exists
        /\ cache[req[p].event].mtime < now
        /\ cache[req[p].event].data.records # <<>>

\* the letters, digits and the underscore
CodeAlphabet ==
    UpperSet \cup {ToLower(u) : u \in UpperSet} \cup {Digits[i] : i \in 1..Len(Digits)} \cup {"_"}

\* text without its characters outside [a-z0-9_], either case
RECURSIVE CleanOf(_)
CleanOf(text) ==
    IF text = <<>> THEN <<>>
    ELSE IF Head(text) \in CodeAlphabet THEN <<Head(text)>> \o CleanOf(Tail(text))
    ELSE CleanOf(Tail(text))

\* the request of p is ?event=TEXT where TEXT, cleaned, is no catalogue key
AsksUnknownEvent(p) ==
    /\ req[p].stage # "idle"
    /\ ~req[p].query.update_all /\ ~req[p].query.list
    /\ req[p].query.event # <<>>
    /\ CleanOf(req[p].query.event[1]) \notin CatalogCodes

Writers == {p \in Workers : req[p].stage = "done" /\ req[p].results = <<"written">>}

\* the workers that have fetched a result and write it, or have written it
Writing == {p \in Workers : req[p].stage \in {"open", "write"}} \cup Writers

\* the body is a whole stored result, marked as served from the cache
IsWholeServedResult(body) ==
    /\ {"success", "count", "records", "from_cache"} \subseteq DOMAIN body
    /\ body.count = Len(body.records)

\* C21 as stated: when two requests for one event run at the same time and
\* both write the cache, then after both have completed the entry is the
\* complete result of one of the two fetches, and every request served from
\* the cache during the race reads a complete result of one write, never a
\* partial or mixed entry.
C21_RaceLeavesOneCompleteResult ==
    /\ (\A p \in Workers : req[p].stage = "done") /\ Cardinality(Writers) >= 2 =>
           \E p \in Writers : cache[RaceEvent].blocks = Encoded(req[p].data)
    /\ \A p \in Workers :
           Cardinality(Writing) >= 2 /\ req[p].stage = "done"
               /\ "from_cache" \in DOMAIN response[p].body /\ response[p].body.from_cache
           => IsWholeServedResult(response[p].body)

----------------------------------------------------------------------------
(* C24 .. C30: the front end *)

\* C24 as stated: after a call hover(id) with an id that is not null,
\* hoveredRecordId is id until the next call of hover, whatever clear timers
\* earlier calls hover(null) of this or another component have scheduled;
\* hoveredRecordId is reset to null only by a timer that was scheduled at
\* least 50 ms before.
C24_HoverSetWinsOverPendingClear ==
    /\ [](debounce.by # "none" /\ debounce.id # null => app.hoveredRecordId = debounce.id)
    /\ [][app'.hoveredRecordId = null /\ app.hoveredRecordId # null =>
             \E c \in Components :
                 /\ debounce.ref[c].state = "pending"
                 /\ debounce'.ref[c].state = "fired"
                 /\ clock - debounce.ref[c].at >= 50]_vars

\* the positions of the records the highlight marks: those whose id is
\* highlightedRecordId
Highlighted == {k \in 1..Len(app.records) : IdOf(app.records[k]) = app.highlightedRecordId}

\* C25 as stated: a click on the bar of the highlighted record sets
\* highlightedRecordId to null, a click on another bar sets it to the id of
\* that bar's record, a click on the background sets it to null, and at
\* most one record is highlighted at any time.
C25_BarClickTogglesOneSelection ==
    /\ [][search'.event.kind = "bar" =>
             LET id == IdOf(app.records[search'.event.at])
             IN  app'.highlightedRecordId = IF app.highlightedRecordId = id THEN null ELSE id]_vars
    /\ [][search'.event.kind = "background" => app'.highlightedRecordId = null]_vars
    /\ [](Cardinality(Highlighted) <= 1)

\* the positions of the records of an athlete with no faster record of his
Fastest(name) ==
    {k \in 1..Len(app.records) :
        /\ app.records[k].name = name
        /\ \A j \in 1..Len(app.records) :
              app.records[j].name = name =>
                  ~LessThan(app.records[j].timeSeconds, app.records[k].timeSeconds)}

\* C28 as stated: with the dropdown open on a list that is not empty,
\* ArrowDown and ArrowUp leave 0 <= selectedIndex <= length - 1; an input
\* change sets selectedIndex to 0; Enter highlights a record only if there
\* is an option at selectedIndex, and then the highlighted id is that of the
\* athlete's record with the lowest timeSeconds.
C28_SearchIndexStaysOnAnOption ==
    /\ [][search'.event.kind \in {"ArrowDown", "ArrowUp"} =>
             /\ 0 <= search'.selectedIndex
             /\ search'.selectedIndex <= Len(Filtered) - 1]_vars
    /\ [][search'.event.kind = "input" => search'.selectedIndex = 0]_vars
    /\ [][search'.event.kind = "Enter" =>
             IF search.selectedIndex < Len(Filtered)
             THEN /\ Highlighted' # {}
                  /\ Highlighted' \subseteq Fastest(Filtered[search.selectedIndex + 1].name)
             ELSE app'.highlightedRecordId = app.highlightedRecordId]_vars

\* a call of handleEventChange with a code has begun, a call has ended
Begins == calls'.started = calls.started + 1

Ends == calls'.settled = calls.settled + 1

\* the fetch gave a response with status 200 whose body reports success
FetchSucceeded(x) ==
    /\ ~x.failed
    /\ x.ok
    /\ ~HasError(x.body)
    /\ x.body.success

\* the message of the failure
FailureMessage(x) ==
    IF x.failed THEN <<"Failed to fetch">>
    ELSE IF ~x.ok THEN <<"Failed to fetch event data: ", x.statusText>>
    ELSE IF ~HasError(x.body) THEN <<"Unknown error">>
    ELSE IF "success" \in DOMAIN x.body THEN <<x.body.error>>
    ELSE x.body.error

\* the records of the body, each normalized with its position
FetchedRecords(x) == [k \in 1..Len(x.body.records) |-> transformRecord(x.body.records[k], k - 1)]

\* C26: a call of handleEventChange with a non-empty code sets isLoading and
\* clears error before its fetch is answered; when the fetch is answered the
\* call ends with isLoading false, with the fetched records and no error
\* after a success, with no records and the failure message after a failure.
C26_LoadingBracketsTheFetch ==
    [][/\ Begins => /\ app'.isLoading
                    /\ app'.error = <<>>
                    /\ calls'.settled = calls.settled
                    /\ calls'.pending # <<>>
       /\ Ends => /\ ~app'.isLoading
                  /\ IF FetchSucceeded(calls'.last.given)
                     THEN /\ app'.records = FetchedRecords(calls'.last.given)
                          /\ app'.error = <<>>
                     ELSE /\ app'.records = <<>>
                          /\ app'.error = FailureMessage(calls'.last.given)]_vars

C26_Witness ==
    /\ calls.settled >= 2
    /\ ~app.isLoading
    /\ app.error = <<"No PRE tag found in HTML">>
    /\ app.selectedEvent = Catalog[2]

\* C27: whenever isLoading is false the records of the app state are empty
\* or are the records fetched for the selected event: the answer to a call
\* for an event selected earlier never replaces them.
C27_RecordsBelongToSelectedEvent ==
    ~app.isLoading /\ app.records # <<>> =>
        /\ calls.settled > 0
        /\ calls.last.event = app.selectedEvent
        /\ FetchSucceeded(calls.last.given)
        /\ app.records = FetchedRecords(calls.last.given)

C27_Witness ==
    /\ ~app.isLoading
    /\ calls.settled >= 2
    /\ app.records # <<>>
    /\ app.selectedEvent = Catalog[2]

\* C30 as stated: for a successful response of ?list, fetchEventsList
\* returns one entry per event of the back-end catalog, and an empty list
\* only when the catalog is empty.
C30_ListHasOneEntryPerCatalogEvent ==
    eventsList.called /\ ~eventsList.threw =>
        /\ Len(eventsList.list) = Len(Catalog)
        /\ eventsList.list = <<>> => Catalog = <<>>

\* C29: every code of the front-end EVENTS lists and of FIELD_EVENTS is a
\* key of the back-end catalog, and no selection made through the event
\* selector is answered with the 400 'Unknown event' response.
C29_SelectableEventsAreCatalogued ==
    /\ \A list \in Builds \cup {FIELD_EVENTS} :
           \A k \in 1..Len(list) : \E j \in 1..Len(BackendEvents) : BackendEvents[j] = list[k]
    /\ calls.settled = 1 =>
           /\ response.status = 200
           /\ response.body # UnknownEvent

C29_Witness ==
    /\ calls.settled = 1
    /\ calls.build = EVENTS_all
    /\ app.selectedEvent = <<"w", "_", "1", "0", "0", "h">>
    /\ response.status = 200

====
